---- MODULE Spec2Model ----
(***************************************************************************)
(* Authentication, session lifecycle and role gating of the business       *)
(* directory server (src/server/handlers.go), as a state machine over the  *)
(* users, sessions and businesses tables.                                   *)
(***************************************************************************)
EXTENDS Integers, Sequences, FiniteSets, TLC

VARIABLES now, jwtSecret, users, sessions, businesses, nextBusinessId,
          eventLog, issued, revoked, last, reg, eventMutex, logger, appended,
          events, nextEventId, bookings, nextBookingId,
          images, nextImageId, img, image_metadata,
          requestCount, requestMutex, counter, counted, call,
          business_owners, event_owners

vars == <<now, jwtSecret, users, sessions, businesses, nextBusinessId,
          eventLog, issued, revoked, last, reg, eventMutex, logger, appended,
          events, nextEventId, bookings, nextBookingId,
          images, nextImageId, img, image_metadata,
          requestCount, requestMutex, counter, counted, call,
          business_owners, event_owners>>

\* the events table and its AUTO_INCREMENT
eventVars == <<events, nextEventId>>

\* the bookings table and its AUTO_INCREMENT
bookingVars == <<bookings, nextBookingId>>

\* the images table, its AUTO_INCREMENT, the image requests in flight, and
\* the image_metadata table: the ids of the images that have a row in it
imageVars == <<images, nextImageId, img, image_metadata>>

\* the request counter, its lock, where each goroutine stands in
\* corsMiddleware, and how many requests have passed the counting step
countVars == <<requestCount, requestMutex, counter, counted>>

\* the profile tables: the ids of the users that have a business_owners row
\* and of those that have an event_owners row
profileVars == <<business_owners, event_owners>>

restVars == <<eventVars, bookingVars, imageVars, countVars, profileVars>>

\* the lock of the event log, where each goroutine stands in logEvent, and
\* how many events have been appended so far
logVars == <<eventMutex, logger, appended>>

(* ------------------------------ bounds --------------------------------- *)
\* last second of the wall clock the model explores
MaxTime == 1
\* lifetime of a token in clock seconds (time.Hour * 24 in the source, scaled)
TokenTTL == 1
\* seconds that may pass between the two clock reads of generateToken
MaxElapsed == 1
\* rows of the users table
MaxUsers == 2
\* distinct tokens the server hands out in one run
MaxIssued == 2
\* how many of the seeded owners (and their businesses) the model keeps
NumSeed == 1
\* highest AUTO_INCREMENT id handed out by the businesses table
MaxBusinessId == 2
\* entries of the in-memory event log the model lets accumulate
MaxLogged == 3
\* requests the server handles at the same time, one goroutine each
MaxConns == 2
\* logEvent calls of one run, enough to push the log over its cap
MaxEvents == 102

\* rows the events table may come to hold
MaxEventId == 2

\* rows the bookings table may come to hold
MaxBookingId == 2

\* rows the images table may come to hold
MaxImageId == 2

\* requests that go through the counting step of corsMiddleware
MaxRequests == 6
(* --------------------------- program constants ------------------------- *)
StatusOK == 200
StatusCreated == 201
StatusBadRequest == 400
StatusUnauthorized == 401
StatusForbidden == 403
StatusNotFound == 404
StatusMethodNotAllowed == 405
StatusConflict == 409
StatusInternalServerError == 500
\* len(eventLog) > 100 drops the oldest entry
EventLogCap == 100

Min(a, b) == IF a < b THEN a ELSE b

(* ------------------------------ passwords ------------------------------ *)
\* bcrypt digest of a password at cost 14 under a salt drawn for this call:
\* not the password, but verifiable against it
hashPassword(password, salt) == <<"bcrypt", 14, salt, password>>

\* bcrypt.CompareHashAndPassword(hash, password) == nil
checkPasswordHash(password, hash) == hash[1] = "bcrypt" /\ hash[4] = password

(* ------------------------------ seed data ------------------------------ *)
SeedOwners ==
  << [name |-> "John Smith",    email |-> "john@coffee.com"],
     [name |-> "Maria Garcia",  email |-> "maria@techhub.com"],
     [name |-> "David Chen",    email |-> "david@fitnessfirst.com"],
     [name |-> "Sarah Johnson", email |-> "sarah@bookstore.com"],
     [name |-> "Mike Wilson",   email |-> "mike@autoshop.com"] >>

SeedBusinesses ==
  << [name |-> "Coffee Corner",       category |-> "Restaurant", rating |-> 45],
     [name |-> "Tech Hub",            category |-> "Technology", rating |-> 42],
     [name |-> "Fitness First Gym",   category |-> "Healthcare", rating |-> 47],
     [name |-> "City Bookstore",      category |-> "Retail",     rating |-> 43],
     [name |-> "Wilson Auto Service", category |-> "Services",   rating |-> 41] >>

SeedPassword == "password123"

(* ----------------------------- request inputs -------------------------- *)
UserTypes == {"user", "business_owner", "event_owner"}

NewAddresses == <<"alice@example.com", "bob@example.com", "carol@example.com">>

\* one fresh address for every user row that registration can still create
NewEmails == {NewAddresses[i] : i \in 1..Min(MaxUsers - NumSeed, Len(NewAddresses))}

Emails == NewEmails \cup {SeedOwners[i].email : i \in 1..NumSeed}

Passwords == {"pw123456", SeedPassword}

\* bodies of POST /register: the well-formed ones, one per missing field and
\* one with a type the ENUM of users.type does not have
RegisterRequests ==
  [name : {"Alice"}, email : NewEmails, password : {"pw123456"},
   type : UserTypes \cup {""}]
    \cup {[name |-> "John", email |-> SeedOwners[1].email, password |-> "pw123456", type |-> ""],
          [name |-> "", email |-> "alice@example.com", password |-> "pw123456", type |-> ""],
          [name |-> "Alice", email |-> "", password |-> "pw123456", type |-> ""],
          [name |-> "Alice", email |-> "alice@example.com", password |-> "", type |-> ""],
          [name |-> "Alice", email |-> "alice@example.com", password |-> "pw123456", type |-> "admin"]}

\* bodies of POST /login
LoginRequests ==
  [email : Emails, password : Passwords]
    \cup {[email |-> "", password |-> "pw123456"],
          [email |-> "alice@example.com", password |-> ""]}

(* -------------------------------- tokens ------------------------------- *)
\* A bearer string.  HS256 signing is deterministic, so the string is a
\* function of the header algorithm, the claims and the signing key.
NoToken == [alg |-> "", user_id |-> 0, email |-> "", type |-> "", exp |-> 0, key |-> 0]

\* key of a party that does not know the process secret
AttackerKey == 0

HMACAlgs == {"HS256", "HS384", "HS512"}

\* the type claim is left at the column default instead of the user's role
SignedString_DefaultType(user, exp, secret) ==
  [alg |-> "HS256", user_id |-> user.id, email |-> user.email,
   type |-> "user", exp |-> exp, key |-> secret]

\* the token is signed with jwt.SigningMethodHS384
SignedString_HS384(user, exp, secret) ==
  [alg |-> "HS384", user_id |-> user.id, email |-> user.email,
   type |-> user.type, exp |-> exp, key |-> secret]

\* jwt.NewWithClaims(jwt.SigningMethodHS256, claims).SignedString(secret)
SignedString(user, exp, secret) ==
  [alg |-> "HS256", user_id |-> user.id, email |-> user.email,
   type |-> user.type, exp |-> exp, key |-> secret]

\* the Authorization header of a request
NoHeader == [kind |-> "none", token |-> NoToken, xid |-> <<>>, xtype |-> ""]

Bearer(tok) == [kind |-> "bearer", token |-> tok, xid |-> <<>>, xtype |-> ""]

\* the value of a request header the client did not send
Absent(key) == IF key = "xid" THEN <<>> ELSE ""

\* X-User-ID / X-User-Type values a client may put on its own request
ClientIdentities ==
  {[xid |-> <<>>, xtype |-> ""], [xid |-> <<1>>, xtype |-> "business_owner"]}

\* the same request with X-User-ID / X-User-Type headers of the client's own
Spoof(h, x) == [h EXCEPT !.xid = x.xid, !.xtype = x.xtype]

\* r.Header.Add: a value the client sent stays first, and Get returns it
SetHeader_KeepsClient(h, key, value) ==
  IF h[key] = Absent(key) THEN [h EXCEPT ![key] = value] ELSE h

\* r.Header.Set(key, value) replaces whatever the request carried under key
SetHeader(h, key, value) == [h EXCEPT ![key] = value]

\* what a client without the secret can build: the seeded owner's claims with
\* a far expiry, unsigned under alg "none" or signed with a key of its own
Forgeries ==
  LET claims == [alg |-> "HS256", user_id |-> 1, email |-> SeedOwners[1].email,
                 type |-> "business_owner", exp |-> MaxTime + TokenTTL + 1,
                 key |-> AttackerKey]
  IN {[claims EXCEPT !.alg = "none"], claims}

\* what a holder of the process secret can build and generateToken never
\* signs: the same claims under another HMAC algorithm
Resigned ==
  {[alg |-> "HS384", user_id |-> 1, email |-> SeedOwners[1].email,
    type |-> "business_owner", exp |-> MaxTime + TokenTTL + 1,
    key |-> jwtSecret]}

\* Authorization headers a request may carry
Headers ==
  {NoHeader, [NoHeader EXCEPT !.kind = "basic"]}
    \cup {Bearer(t) : t \in issued \cup Forgeries \cup Resigned}

(* --------------------- X-User-ID formatting / parsing ------------------ *)
RECURSIVE Digits(_)
\* fmt.Sprintf("%.0f", n) of a non-negative whole number: its decimal digits
Digits(n) == IF n < 10 THEN <<n>> ELSE Append(Digits(n \div 10), n % 10)

RECURSIVE Atoi(_)
\* strconv.Atoi of a digit string
Atoi(s) == IF Len(s) = 0 THEN 0
           ELSE 10 * Atoi(SubSeq(s, 1, Len(s) - 1)) + s[Len(s)]

(* ------------------------------- tables -------------------------------- *)
UserByEmail(email) == {i \in 1..Len(users) : users[i].email = email}

\* the users table has no UNIQUE index on email
DuplicateEntry_NoUniqueIndex(email) == FALSE

\* INSERT INTO users fails with "Duplicate entry": email is UNIQUE
DuplicateEntry(email) == UserByEmail(email) # {}

SessionRows(tok) == {s \in sessions : s.token = tok}

\* SELECT ... FROM sessions WHERE token = ? AND expires_at > NOW()
LiveRows(tok) == {s \in SessionRows(tok) : s.expires_at > now}

(* ---------------------------- authenticateToken ------------------------ *)
\* the keyfunc passed to jwt.Parse accepts HMAC methods only
KeyFuncOK(tok) == tok.alg \in HMACAlgs

\* the exp claim is not validated
JwtValid_IgnoresExp(tok) ==
  /\ KeyFuncOK(tok)
  /\ tok.key = jwtSecret

\* jwt.Parse: keyfunc, signature under the process secret, exp claim
JwtValid(tok) ==
  /\ KeyFuncOK(tok)
  /\ tok.key = jwtSecret
  /\ now < tok.exp

\* return nil, err: no claims, after the calls made so far
AuthFail(calls) == [ok |-> FALSE, user_id |-> 0, type |-> "", steps |-> calls]

\* db.QueryRow("SELECT user_id, expires_at FROM sessions WHERE token = ? AND
\* expires_at > NOW()", tokenString).Scan(&userID, &expiresAt): the error
\* and the user_id scanned, after the calls made so far
QueryRow(tok, calls) ==
  LET rows == LiveRows(tok) IN
  [err |-> rows = {},
   userID |-> IF rows = {} THEN 0 ELSE (CHOOSE r \in rows : TRUE).user_id,
   steps |-> Append(calls, "QueryRow")]

\* jwt.Parse(tokenString, keyfunc) and token.Valid, after the calls made so
\* far
Parse(tok, calls) ==
  [valid |-> JwtValid(tok), claims |-> tok, steps |-> Append(calls, "Parse")]

\* the statements of authenticateToken that follow a successful Scan; userID
\* is the user_id of the row, a local the function never reads again
VerifyJWT(userID, tok, calls) ==
  LET token == Parse(tok, calls) IN
  IF ~token.valid THEN AuthFail(token.steps)
  ELSE [ok |-> TRUE, user_id |-> token.claims.user_id,
        type |-> token.claims.type, steps |-> token.steps]

\* the session row alone decides; the token is never parsed
authenticateToken_RowOnly(hdr) ==
  IF hdr.kind # "bearer" THEN AuthFail(<<>>)
  ELSE LET row == QueryRow(hdr.token, <<>>) IN
       IF row.err THEN AuthFail(row.steps)
       ELSE [ok |-> TRUE, user_id |-> hdr.token.user_id,
             type |-> hdr.token.type, steps |-> row.steps]

\* the signature is verified first and the row looked up afterwards
authenticateToken_ParseFirst(hdr) ==
  IF hdr.kind # "bearer" THEN AuthFail(<<>>)
  ELSE LET token == Parse(hdr.token, <<>>)
           row == QueryRow(hdr.token, token.steps)
       IN IF ~token.valid THEN AuthFail(token.steps)
          ELSE IF row.err THEN AuthFail(row.steps)
          ELSE [ok |-> TRUE, user_id |-> token.claims.user_id,
                type |-> token.claims.type, steps |-> row.steps]

\* authenticateToken: the header, the lookup of the session row, and only
\* after a row was found the verification of the token
authenticateToken(hdr) ==
  IF hdr.kind # "bearer" THEN AuthFail(<<>>)
  ELSE LET row == QueryRow(hdr.token, <<>>) IN
       IF row.err THEN AuthFail(row.steps)
       ELSE VerifyJWT(row.userID, hdr.token, row.steps)

\* the 401 branch lacks its return, so the wrapped handler runs regardless
authMiddleware_NoReturn(hdr) ==
  LET claims == authenticateToken(hdr) IN
  IF ~claims.ok
  THEN [next |-> 1, status |-> StatusUnauthorized, xid |-> <<>>, xtype |-> "",
        steps |-> claims.steps]
  ELSE [next |-> 1, status |-> 0, xid |-> Digits(claims.user_id),
        xtype |-> claims.type, steps |-> claims.steps]

\* authMiddleware: the headers the wrapped handler sees, or the 401
authMiddleware(hdr) ==
  LET claims == authenticateToken(hdr)
      r == SetHeader(SetHeader(hdr, "xid", Digits(claims.user_id)),
                     "xtype", claims.type)
  IN
  IF ~claims.ok
  THEN [next |-> 0, status |-> StatusUnauthorized, xid |-> <<>>, xtype |-> "",
        steps |-> claims.steps]
  ELSE [next |-> 1, status |-> 0, xid |-> r.xid, xtype |-> r.xtype,
        steps |-> claims.steps]

\* the role test of eventOwnerOnly pasted into the business-owner gate
businessOwnerOnly_AdmitsEventOwner(hdr) ==
  LET a == authMiddleware(hdr) IN
  IF a.next = 0 THEN a @@ [pass |-> FALSE]
  ELSE IF a.xtype # "event_owner" /\ a.xtype # "business_owner"
       THEN [a EXCEPT !.status = StatusForbidden] @@ [pass |-> FALSE]
       ELSE a @@ [pass |-> TRUE]

\* businessOwnerOnly: authMiddleware, then the role test
businessOwnerOnly(hdr) ==
  LET a == authMiddleware(hdr) IN
  IF a.next = 0 THEN a @@ [pass |-> FALSE]
  ELSE IF a.xtype # "business_owner"
       THEN [a EXCEPT !.status = StatusForbidden] @@ [pass |-> FALSE]
       ELSE a @@ [pass |-> TRUE]

\* eventOwnerOnly: authMiddleware, then the role test
eventOwnerOnly(hdr) ==
  LET a == authMiddleware(hdr) IN
  IF a.next = 0 THEN a @@ [pass |-> FALSE]
  ELSE IF a.xtype # "event_owner" /\ a.xtype # "business_owner"
       THEN [a EXCEPT !.status = StatusForbidden] @@ [pass |-> FALSE]
       ELSE a @@ [pass |-> TRUE]

(* ------------------------ the last request served ---------------------- *)
NoBusiness == [id |-> 0, owner_id |-> 0, name |-> "", category |-> "",
               description |-> "", rating |-> 0]

\* what is left of a users row once it has been deleted; ids are not reused
NoUser == [id |-> 0, name |-> "", email |-> "", password |-> <<>>, type |-> ""]

RoleOfRow(tok) ==
  IF SessionRows(tok) = {} THEN ""
  ELSE LET s == CHOOSE r \in SessionRows(tok) : TRUE IN users[s.user_id].type

\* sessions.user_id of the row that holds the token, 0 without a row
UserOfRow(tok) ==
  IF SessionRows(tok) = {} THEN 0
  ELSE LET s == CHOOSE r \in SessionRows(tok) : TRUE IN s.user_id

\* what was true of the presented header when the request arrived
Snapshot(route, method, hdr) ==
  [route |-> route, method |-> method, hdr |-> hdr,
   expired |-> now >= hdr.token.exp,
   liveRow |-> LiveRows(hdr.token) # {},
   staleRow |-> \E s \in SessionRows(hdr.token) : s.expires_at <= now,
   jwtOK |-> JwtValid(hdr.token),
   wasRevoked |-> hdr.token \in revoked,
   rowRole |-> RoleOfRow(hdr.token),
   rowUserID |-> UserOfRow(hdr.token),
   userGone |-> /\ hdr.token.user_id \in 1..Len(users)
                /\ users[hdr.token.user_id] = NoUser]

NoGate == [next |-> 0, xid |-> <<>>, xtype |-> "", steps |-> <<>>]

\* the response and what the middleware chain did on the way
Outcome(status, gate, ran, token, target, pre) ==
  [status |-> status, authNext |-> gate.next, xid |-> gate.xid,
   xtype |-> gate.xtype, steps |-> gate.steps, ran |-> ran, token |-> token,
   fresh |-> token \notin issued, credOK |-> FALSE,
   insertErr |-> FALSE, dbErr |-> FALSE,
   supplied |-> FALSE, known |-> FALSE, body |-> "", rowsSame |-> FALSE,
   removed |-> {}, added |-> {}, usersSame |-> FALSE,
   target |-> target, pre |-> pre,
   sent |-> {}, before |-> {}, after |-> {},
   early |-> FALSE, created |-> 0]

Served(route, method, hdr, status, gate, ran, token, target, pre) ==
  Snapshot(route, method, hdr) @@ Outcome(status, gate, ran, token, target, pre)

\* no request is being answered
Idle == Served("idle", "", NoHeader, 0, NoGate, 0, NoToken, 0, NoBusiness)

(* ------------------------- requests in flight -------------------------- *)
\* the goroutines net/http runs the handlers on, one per connection
Conns == 1..MaxConns

\* a connection on which no handler is between two statements; obs is what
\* the client of the request in flight will come to see
NoCall == [pc |-> "idle", obs |-> Idle]

\* the body of a request that carries none
NoBody == [id |-> 0]

\* a request as the mux hands it to the function registered for its path
Request(route, method, hdr, body) ==
  [route |-> route, method |-> method, hdr |-> hdr, body |-> body]

\* a connection on which no request has gone through corsMiddleware
NoRequest ==
  [pc |-> "idle", route |-> "", method |-> "", hdr |-> NoHeader,
   body |-> NoBody, loaded |-> 0, passed |-> FALSE, ran |-> FALSE,
   count |-> 0, status |-> 0]

\* a connection on which no image request has arrived
NoImageRequest ==
  [pc |-> "idle", route |-> "", entity_type |-> "", entity_id |-> 0,
   caption |-> "", is_primary |-> FALSE, id |-> 0, uploaded_by |-> <<>>,
   display_order |-> 0, obs |-> Idle]

\* a connection on which no registration has arrived
NoRegistration ==
  [pc |-> "idle", name |-> "", email |-> "", password |-> "", type |-> "",
   userID |-> 0, user |-> NoUser, obs |-> Idle]

(* --------------------------------- Init -------------------------------- *)
\* createTables leaves events, bookings and images empty; the counter of
\* corsMiddleware starts at 0
InitRest ==
  /\ events = {}
  /\ nextEventId = 1
  /\ bookings = {}
  /\ nextBookingId = 1
  /\ images = {}
  /\ nextImageId = 1
  /\ img = [p \in Conns |-> NoImageRequest]
  /\ image_metadata = {}
  /\ requestCount = 0
  /\ requestMutex = 0
  /\ counter = [p \in Conns |-> NoRequest]
  /\ counted = 0
  /\ call = [p \in Conns |-> NoCall]


SeedUser(i) ==
  [id |-> i, name |-> SeedOwners[i].name, email |-> SeedOwners[i].email,
   password |-> hashPassword(SeedPassword, i), type |-> "business_owner"]

SeedBusiness(i) ==
  [id |-> i, owner_id |-> i, name |-> SeedBusinesses[i].name,
   category |-> SeedBusinesses[i].category, description |-> "seeded",
   rating |-> SeedBusinesses[i].rating]

\* seedData: each owner's users row, business_owners row and business
Init ==
  /\ now = 0
  /\ jwtSecret = 1
  /\ users = [i \in 1..NumSeed |-> SeedUser(i)]
  /\ business_owners = 1..NumSeed
  /\ event_owners = {}
  /\ sessions = {}
  /\ businesses = {SeedBusiness(i) : i \in 1..NumSeed}
  /\ nextBusinessId = NumSeed + 1
  /\ eventLog = <<>>
  /\ issued = {}
  /\ revoked = {}
  /\ last = Idle
  /\ reg = [p \in Conns |-> NoRegistration]
  /\ eventMutex = 0
  /\ logger = [p \in Conns |-> "idle"]
  /\ appended = 0
  /\ InitRest

(* --------------------------------- clock ------------------------------- *)
\* a second passes
Tick ==
  /\ now < MaxTime
  /\ now' = now + 1
  /\ UNCHANGED <<jwtSecret, users, sessions, businesses, nextBusinessId,
                 eventLog, issued, revoked, last, reg, logVars,
                 eventVars, bookingVars, imageVars, countVars, call,
                 profileVars>>

\* the response has gone out to the client
Deliver ==
  /\ last # Idle
  /\ last' = Idle
  /\ UNCHANGED <<now, jwtSecret, users, sessions, businesses,
                 nextBusinessId, eventLog, issued, revoked, reg,
                 logVars, eventVars, bookingVars, imageVars, countVars,
                 call, profileVars>>

(* ------------------------------ generateToken -------------------------- *)
\* generateToken reads the clock twice: the seconds by which the second read
\* may be later than the first
ClockReads == 0..MaxElapsed

\* the token string generateToken signs for a user at the current second
TokenFor(user) == SignedString(user, now + TokenTTL, jwtSecret)

\* the INSERT INTO sessions succeeds unless the UNIQUE token already exists
\* or the FOREIGN KEY finds no users row for user_id
InsertSessionOK(tok) ==
  /\ SessionRows(tok) = {}
  /\ tok.user_id \in 1..Len(users)
  /\ users[tok.user_id] # NoUser

\* the row is stored under the id of the first user, whoever the token is
\* signed for
SessionRow_OfFirstUser(user, tok, d) ==
  [user_id |-> 1, token |-> tok, expires_at |-> now + d + TokenTTL]

\* the row generateToken stores; the clock is read again, d seconds later
SessionRow(user, tok, d) ==
  [user_id |-> user.id, token |-> tok, expires_at |-> now + d + TokenTTL]

\* db.Exec of the INSERT returns nil: the statement reached the database
\* (dbUp) and the UNIQUE index on token let the row in
Inserted(tok, dbUp) == dbUp /\ InsertSessionOK(tok)

\* the error of the INSERT is dropped and the signed string returned anyway
generateToken_IgnoresInsertError(user, dbUp) ==
  [token |-> TokenFor(user), err |-> FALSE]

\* what generateToken returns: ("", err) when the INSERT failed, else the
\* signed string
generateToken(user, dbUp) ==
  IF Inserted(TokenFor(user), dbUp)
  THEN [token |-> TokenFor(user), err |-> FALSE]
  ELSE [token |-> NoToken, err |-> TRUE]

(* ----------------------------- corsMiddleware -------------------------- *)
\* Lock() returns at once, whoever holds the mutex
RequestMutexFree_NoExclusion == TRUE

\* requestMutex.Lock() returns only while no goroutine holds the mutex
RequestMutexFree == requestMutex = 0

\* goroutines between arrival and their requestCount++
Counting == {p \in Conns : counter[p].pc \in {"lock", "load", "store"}}

\* the goroutine of connection p serves no request
Free(p) ==
  /\ counter[p].pc = "idle"
  /\ reg[p].pc = "idle" /\ call[p].pc = "idle" /\ img[p].pc = "idle"

\* the request as corsMiddleware holds it, the CORS headers set
Received(req) ==
  [NoRequest EXCEPT !.route = req.route, !.method = req.method,
                    !.hdr = req.hdr, !.body = req.body]

\* a request arrives on connection p: the CORS headers are set and an OPTIONS
\* request is answered 200 there and then
CorsArrive(p, req) ==
  /\ Free(p)
  /\ req.method # "OPTIONS" => counted + Cardinality(Counting) < MaxRequests
  /\ counter' = [counter EXCEPT ![p] =
       IF req.method = "OPTIONS"
       THEN [Received(req) EXCEPT !.status = StatusOK]
       ELSE [Received(req) EXCEPT !.pc = "lock"]]
  /\ UNCHANGED <<now, jwtSecret, users, sessions, businesses,
                 nextBusinessId, eventLog, issued, revoked, last, reg,
                 logVars, eventVars, bookingVars, imageVars,
                 requestCount, requestMutex, counted, call,
                 profileVars>>

\* requestMutex.Lock()
CorsLock(p) ==
  /\ counter[p].pc = "lock"
  /\ RequestMutexFree
  /\ requestMutex' = p
  /\ counter' = [counter EXCEPT ![p].pc = "load"]
  /\ UNCHANGED <<now, jwtSecret, users, sessions, businesses,
                 nextBusinessId, eventLog, issued, revoked, last, reg,
                 logVars, eventVars, bookingVars, imageVars,
                 requestCount, counted, call, profileVars>>

\* requestCount++ reads the variable ...
CorsLoad(p) ==
  /\ counter[p].pc = "load"
  /\ counter' = [counter EXCEPT ![p].pc = "store", ![p].loaded = requestCount]
  /\ UNCHANGED <<now, jwtSecret, users, sessions, businesses,
                 nextBusinessId, eventLog, issued, revoked, last, reg,
                 logVars, eventVars, bookingVars, imageVars,
                 requestCount, requestMutex, counted, call,
                 profileVars>>

\* ... and writes it back, one higher
CorsStore(p) ==
  /\ counter[p].pc = "store"
  /\ requestCount' = counter[p].loaded + 1
  /\ counted' = counted + 1
  /\ counter' = [counter EXCEPT ![p].pc = "unlock", ![p].passed = TRUE]
  /\ UNCHANGED <<now, jwtSecret, users, sessions, businesses,
                 nextBusinessId, eventLog, issued, revoked, last, reg,
                 logVars, eventVars, bookingVars, imageVars,
                 requestMutex, call, profileVars>>

\* requestMutex.Unlock(), then next(w, r)
CorsUnlock(p) ==
  /\ counter[p].pc = "unlock"
  /\ requestMutex' = 0
  /\ counter' = [counter EXCEPT ![p].pc = "next", ![p].ran = TRUE]
  /\ UNCHANGED <<now, jwtSecret, users, sessions, businesses,
                 nextBusinessId, eventLog, issued, revoked, last, reg,
                 logVars, eventVars, bookingVars, imageVars,
                 requestCount, counted, call, profileVars>>

\* corsMiddleware from the arrival of a request on connection p to its
\* next(w, r), the critical section around requestCount++ taken in one step
corsMiddleware(p, req) ==
  /\ Free(p)
  /\ IF req.method = "OPTIONS"
     THEN /\ counter' = [counter EXCEPT ![p] =
                 [Received(req) EXCEPT !.status = StatusOK]]
          /\ UNCHANGED <<requestCount, counted>>
     ELSE /\ RequestMutexFree
          /\ counted + Cardinality(Counting) < MaxRequests
          /\ requestCount' = requestCount + 1
          /\ counted' = counted + 1
          /\ counter' = [counter EXCEPT ![p] =
                 [Received(req) EXCEPT !.pc = "next", !.passed = TRUE,
                                       !.ran = TRUE]]
  /\ UNCHANGED <<now, jwtSecret, users, sessions, businesses,
                 nextBusinessId, eventLog, issued, revoked, last, reg,
                 logVars, eventVars, bookingVars, imageVars,
                 requestMutex, call, profileVars>>

\* next(w, r) of corsMiddleware is the function registered for the route
Handed(p, route) == counter[p].pc = "next" /\ counter[p].route = route

\* the function registered for the route has taken the request over
Taken(p) == counter' = [counter EXCEPT ![p] = NoRequest]

(* ------------------------------ statsHandler --------------------------- *)
\* statsHandler: requestMutex.Lock()
StatsLock(p) ==
  /\ Handed(p, "stats")
  /\ RequestMutexFree
  /\ requestMutex' = p
  /\ counter' = [counter EXCEPT ![p].pc = "statsRead"]
  /\ UNCHANGED <<now, jwtSecret, users, sessions, businesses,
                 nextBusinessId, eventLog, issued, revoked, last, reg,
                 logVars, eventVars, bookingVars, imageVars,
                 requestCount, counted, call, profileVars>>

\* count := requestCount
StatsRead(p) ==
  /\ counter[p].pc = "statsRead"
  /\ counter' = [counter EXCEPT ![p].pc = "statsUnlock",
                                ![p].count = requestCount]
  /\ UNCHANGED <<now, jwtSecret, users, sessions, businesses,
                 nextBusinessId, eventLog, issued, revoked, last, reg,
                 logVars, eventVars, bookingVars, imageVars,
                 requestCount, requestMutex, counted, call,
                 profileVars>>

\* requestMutex.Unlock(), then the response with total_requests
StatsUnlock(p) ==
  /\ counter[p].pc = "statsUnlock"
  /\ requestMutex' = 0
  /\ counter' = [counter EXCEPT ![p].pc = "idle", ![p].status = StatusOK]
  /\ UNCHANGED <<now, jwtSecret, users, sessions, businesses,
                 nextBusinessId, eventLog, issued, revoked, last, reg,
                 logVars, eventVars, bookingVars, imageVars,
                 requestCount, counted, call, profileVars>>

(* ------------------------- answers and next steps ---------------------- *)
\* the request on connection p is answered before any statement has run
Refused(p, obs, status) ==
  /\ last' = [obs EXCEPT !.status = status]
  /\ UNCHANGED call

\* the handler on connection p goes on to its next statement
Proceed(p, pc, obs) ==
  /\ call' = [call EXCEPT ![p] = [pc |-> pc, obs |-> obs]]
  /\ UNCHANGED last

\* the handler on connection p answers and returns
Answer(p, obs, status) ==
  /\ last' = [obs EXCEPT !.status = status]
  /\ call' = [call EXCEPT ![p] = NoCall]

\* the body of the request connection p is serving
BodyOf(p) == CHOOSE b \in call[p].obs.sent : TRUE

(* ------------------------------- /register ----------------------------- *)
\* what the client of a POST /register has seen when the request arrives:
\* nothing written yet
RegisterObs(method, email, userType) ==
  [Served("register", method, NoHeader, 0, NoGate, 1, NoToken, 0, NoBusiness)
     EXCEPT !.sent = {[email |-> email, type |-> userType]},
            !.early = UserByEmail(email) = {},
            !.usersSame = TRUE,
            !.rowsSame = TRUE]

\* the users row of this registration is gone again, or was never written
NoRowLeft(userID) == userID = 0 \/ users[userID] = NoUser

\* registerHandler takes the request of connection p and passes or fails the
\* checks it makes before it touches the database
RegArrive(p) ==
  LET method == counter[p].method
      body == counter[p].body
      userType == IF body.type = "" THEN "business_owner" ELSE body.type
      obs == RegisterObs(method, body.email, userType)
      answer(status) ==
        /\ last' = [obs EXCEPT !.status = status]
        /\ UNCHANGED reg
  IN
  /\ Handed(p, "register")
  /\ Taken(p)
  /\ IF method # "POST" THEN answer(StatusMethodNotAllowed)
     ELSE IF body.name = "" \/ body.email = "" \/ body.password = ""
     THEN answer(StatusBadRequest)
     ELSE /\ reg' = [reg EXCEPT ![p] =
                 [NoRegistration EXCEPT
                    !.pc = "insert", !.name = body.name,
                    !.email = body.email, !.password = body.password,
                    !.type = userType,
                    !.obs = obs]]
          /\ UNCHANGED last
  /\ UNCHANGED <<now, jwtSecret, users, sessions, businesses,
                 nextBusinessId, eventLog, issued, revoked, logVars,
                 eventVars, bookingVars, imageVars, requestCount,
                 requestMutex, counted, call, profileVars>>

\* INSERT INTO users (...): one statement.  It fails when it does not reach
\* the database; under MySQL's default (strict) sql_mode a type outside the
\* ENUM of the column is an error of the value, raised before the row meets
\* the UNIQUE index on email.  Only "Duplicate entry" is answered 409, every
\* other error 500
RegInsertUser(p, dbUp) ==
  LET r == reg[p]
      user == [id |-> Len(users) + 1, name |-> r.name, email |-> r.email,
               password |-> hashPassword(r.password, Len(users) + 1),
               type |-> r.type]
      obs == [r.obs EXCEPT !.known = UserByEmail(r.email) # {}]
      answer(status) ==
        /\ last' = [obs EXCEPT !.status = status]
        /\ reg' = [reg EXCEPT ![p] = NoRegistration]
        /\ UNCHANGED users
  IN
  /\ r.pc = "insert"
  /\ IF ~dbUp
     THEN /\ last' = [obs EXCEPT !.status = StatusInternalServerError,
                                 !.dbErr = TRUE]
          /\ reg' = [reg EXCEPT ![p] = NoRegistration]
          /\ UNCHANGED users
     ELSE IF r.type \notin UserTypes THEN answer(StatusInternalServerError)
     ELSE IF DuplicateEntry(r.email) THEN answer(StatusConflict)
     ELSE /\ Len(users) < MaxUsers
          /\ users' = Append(users, user)
          /\ reg' = [reg EXCEPT
               ![p].pc = IF r.type = "user" THEN "select" ELSE "profile",
               ![p].userID = user.id,
               ![p].obs = [obs EXCEPT !.created = user.id]]
          /\ UNCHANGED last
  /\ UNCHANGED <<now, jwtSecret, sessions, businesses, nextBusinessId,
                 eventLog, issued, revoked, logVars, eventVars,
                 bookingVars, imageVars, countVars, call, profileVars>>

\* INSERT INTO business_owners / event_owners (id, ...) VALUES (userID, ...):
\* fails when the statement does not reach the database and when the users
\* row the id refers to is gone
RegInsertProfile(p, dbUp) ==
  LET r == reg[p]
      ok == dbUp /\ users[r.userID] # NoUser
  IN
  /\ r.pc = "profile"
  /\ business_owners' = IF ok /\ r.type = "business_owner"
                        THEN business_owners \cup {r.userID}
                        ELSE business_owners
  /\ event_owners' = IF ok /\ r.type = "event_owner"
                     THEN event_owners \cup {r.userID}
                     ELSE event_owners
  /\ IF ~ok
     THEN /\ last' = [r.obs EXCEPT !.status = StatusInternalServerError,
                                   !.dbErr = ~dbUp,
                                   !.usersSame = NoRowLeft(r.userID)]
          /\ reg' = [reg EXCEPT ![p] = NoRegistration]
     ELSE /\ reg' = [reg EXCEPT ![p].pc = "select"]
          /\ UNCHANGED last
  /\ UNCHANGED <<now, jwtSecret, users, sessions, businesses,
                 nextBusinessId, eventLog, issued, revoked, logVars,
                 eventVars, bookingVars, imageVars, countVars, call>>

\* SELECT id, name, email, type, created_at FROM users WHERE id = ?
RegSelect(p, dbUp) ==
  LET r == reg[p] IN
  /\ r.pc = "select"
  /\ IF ~dbUp \/ users[r.userID] = NoUser
     THEN /\ last' = [r.obs EXCEPT !.status = StatusInternalServerError,
                                   !.dbErr = ~dbUp,
                                   !.usersSame = NoRowLeft(r.userID)]
          /\ reg' = [reg EXCEPT ![p] = NoRegistration]
     ELSE /\ reg' = [reg EXCEPT ![p].pc = "token",
                                ![p].user = users[r.userID]]
          /\ UNCHANGED last
  /\ UNCHANGED <<now, jwtSecret, users, sessions, businesses,
                 nextBusinessId, eventLog, issued, revoked, logVars,
                 eventVars, bookingVars, imageVars, countVars, call,
                 profileVars>>

\* generateToken(user) for the row that was read, then the 201 or the 500
RegGenerateToken(p, d, dbUp) ==
  LET r == reg[p]
      tok == TokenFor(r.user)
      got == generateToken(r.user, dbUp)
  IN
  /\ r.pc = "token"
  /\ Cardinality(issued \cup ({got.token} \ {NoToken})) <= MaxIssued
  /\ now + d <= MaxTime
  /\ sessions' = IF Inserted(tok, dbUp)
                 THEN sessions \cup {SessionRow(r.user, tok, d)}
                 ELSE sessions
  /\ now' = now + d
  /\ issued' = issued \cup ({got.token} \ {NoToken})
  /\ last' = [r.obs EXCEPT
                !.status = IF got.err THEN StatusInternalServerError
                           ELSE StatusCreated,
                !.token = got.token,
                !.fresh = got.token \notin issued,
                !.insertErr = ~Inserted(tok, dbUp),
                !.dbErr = ~dbUp,
                !.usersSame = NoRowLeft(r.userID),
                !.rowsSame = sessions' = sessions]
  /\ reg' = [reg EXCEPT ![p] = NoRegistration]
  /\ UNCHANGED <<jwtSecret, users, businesses, nextBusinessId, eventLog,
                 revoked, logVars, eventVars, bookingVars, imageVars,
                 countVars, call, profileVars>>

(* --------------------------------- /login ------------------------------ *)
\* the unknown-email answer names the reason
NoSuchUser_Reveals == [status |-> StatusNotFound, body |-> "user not found"]

\* the answer when SELECT ... WHERE email = ? finds no row
NoSuchUser == [status |-> StatusUnauthorized, body |-> "invalid credentials"]

\* the answer when checkPasswordHash fails
WrongPassword == [status |-> StatusUnauthorized, body |-> "invalid credentials"]

\* loginHandler takes the request of connection p: the checks of the body,
\* the SELECT of the users row by email and the comparison of the password
Login(p, dbUp) ==
  LET method == counter[p].method
      email == counter[p].body.email
      password == counter[p].body.password
      found == UserByEmail(email)
      good == \E i \in 1..Len(users) :
                /\ users[i].email = email
                /\ users[i].password = hashPassword(password, i)
      obs == [Served("login", method, NoHeader, 0, NoGate, 1, NoToken, 0,
                     NoBusiness)
                EXCEPT !.credOK = good,
                       !.supplied = email # "" /\ password # "",
                       !.known = found # {},
                       !.rowsSame = TRUE]
      refuse(status, body) ==
        Refused(p, [obs EXCEPT !.body = body], status)
  IN
  /\ Handed(p, "login")
  /\ Taken(p)
  /\ IF method # "POST" THEN refuse(StatusMethodNotAllowed, "")
     ELSE IF email = "" \/ password = ""
     THEN refuse(StatusBadRequest, "email and password are required")
     ELSE IF ~dbUp
     THEN Refused(p, [obs EXCEPT !.body = "internal server error",
                                 !.dbErr = TRUE],
                  StatusInternalServerError)
     ELSE IF found = {} THEN refuse(NoSuchUser.status, NoSuchUser.body)
     ELSE LET user == users[CHOOSE i \in found : TRUE] IN
          IF ~checkPasswordHash(password, user.password)
          THEN refuse(WrongPassword.status, WrongPassword.body)
          ELSE Proceed(p, "loginToken", [obs EXCEPT !.before = {user}])
  /\ UNCHANGED <<now, jwtSecret, users, sessions, businesses,
                 nextBusinessId, eventLog, issued, revoked, reg,
                 logVars, eventVars, bookingVars, imageVars,
                 requestCount, requestMutex, counted, profileVars>>

\* generateToken(user) for the row the SELECT returned, then the 200 with
\* the user and the token, or the 500
LoginGenerateToken(p, d, dbUp) ==
  LET obs == call[p].obs
      user == CHOOSE u \in obs.before : TRUE
      tok == TokenFor(user)
      got == generateToken(user, dbUp)
  IN
  /\ call[p].pc = "loginToken"
  /\ Cardinality(issued \cup ({got.token} \ {NoToken})) <= MaxIssued
  /\ now + d <= MaxTime
  /\ sessions' = IF Inserted(tok, dbUp)
                 THEN sessions \cup {SessionRow(user, tok, d)}
                 ELSE sessions
  /\ now' = now + d
  /\ issued' = issued \cup ({got.token} \ {NoToken})
  /\ Answer(p, [obs EXCEPT
                  !.token = got.token,
                  !.fresh = got.token \notin issued,
                  !.insertErr = ~Inserted(tok, dbUp),
                  !.dbErr = ~dbUp,
                  !.rowsSame = sessions' = sessions,
                  !.body = IF got.err THEN "failed to generate token"
                           ELSE "user, token"],
            IF got.err THEN StatusInternalServerError ELSE StatusOK)
  /\ UNCHANGED <<jwtSecret, users, businesses, nextBusinessId, eventLog,
                 revoked, reg, logVars, eventVars, bookingVars,
                 imageVars, countVars, profileVars>>

(* --------------------------------- /logout ----------------------------- *)
\* every session of the token's user is deleted
LogoutDeletes_AllOfUser(tok) == {s \in sessions : s.user_id = tok.user_id}

\* DELETE FROM sessions WHERE token = ?
LogoutDeletes(tok) == {s \in sessions : s.token = tok}

\* authMiddleware(logoutHandler) takes the request of connection p: the
\* SELECT of authenticateToken and the checks of the handler, up to the DELETE
Logout(p) ==
  LET method == counter[p].method
      hdr == counter[p].hdr
      gate == authMiddleware(hdr)
      obs == [Served("logout", method, hdr, 0, gate, gate.next, NoToken, 0,
                     NoBusiness) EXCEPT !.usersSame = TRUE]
  IN
  /\ Handed(p, "logout")
  /\ Taken(p)
  /\ IF gate.next = 0 THEN Refused(p, obs, gate.status)
     ELSE IF method # "POST" THEN Refused(p, obs, StatusMethodNotAllowed)
     ELSE IF hdr.kind # "bearer" THEN Refused(p, obs, StatusBadRequest)
     ELSE Proceed(p, "logout", obs)
  /\ UNCHANGED <<now, jwtSecret, users, sessions, businesses,
                 nextBusinessId, eventLog, issued, revoked, reg,
                 logVars, eventVars, bookingVars, imageVars,
                 requestCount, requestMutex, counted, profileVars>>

\* db.Exec("DELETE FROM sessions WHERE token = ?"): no error when no row is
\* left to delete, then the 200
LogoutDelete(p) ==
  LET obs == call[p].obs IN
  /\ call[p].pc = "logout"
  /\ sessions' = sessions \ LogoutDeletes(obs.hdr.token)
  /\ revoked' = revoked \cup {obs.hdr.token}
  /\ Answer(p, [obs EXCEPT !.removed = sessions \ sessions',
                           !.added = sessions' \ sessions],
            StatusOK)
  /\ UNCHANGED <<now, jwtSecret, users, businesses, nextBusinessId,
                 eventLog, issued, reg, logVars, eventVars,
                 bookingVars, imageVars, countVars, profileVars>>

(* ------------------------ /my-businesses, /my-events ------------------- *)
\* businessOwnerOnly(getMyBusinessesHandler) takes the request of connection
\* p: the gate and the checks of the handler, up to its SELECT
GetMyBusinesses(p) ==
  LET method == counter[p].method
      hdr == counter[p].hdr
      gate == businessOwnerOnly(hdr)
      obs == Served("my-businesses", method, hdr, 0, gate,
                    IF gate.pass THEN 1 ELSE 0, NoToken, 0, NoBusiness)
  IN
  /\ Handed(p, "my-businesses")
  /\ Taken(p)
  /\ IF ~gate.pass THEN Refused(p, obs, gate.status)
     ELSE IF method # "GET" THEN Refused(p, obs, StatusMethodNotAllowed)
     ELSE Proceed(p, "myBusinessesSelect",
                  [obs EXCEPT !.target = Atoi(gate.xid)])
  /\ UNCHANGED <<now, jwtSecret, users, sessions, businesses,
                 nextBusinessId, eventLog, issued, revoked, reg,
                 logVars, eventVars, bookingVars, imageVars,
                 requestCount, requestMutex, counted, profileVars>>

\* SELECT ... FROM businesses WHERE owner_id = ?, then the 200 with the rows
GetMyBusinessesSelect(p) ==
  LET obs == call[p].obs IN
  /\ call[p].pc = "myBusinessesSelect"
  /\ Answer(p, [obs EXCEPT
                  !.after = {b \in businesses : b.owner_id = obs.target}],
            StatusOK)
  /\ UNCHANGED <<now, jwtSecret, users, sessions, businesses,
                 nextBusinessId, eventLog, issued, revoked, reg,
                 logVars, eventVars, bookingVars, imageVars, countVars,
                 profileVars>>

\* eventOwnerOnly(getMyEventsHandler) takes the request of connection p: the
\* gate and the checks of the handler, up to its SELECT
GetMyEvents(p) ==
  LET method == counter[p].method
      hdr == counter[p].hdr
      gate == eventOwnerOnly(hdr)
      obs == Served("my-events", method, hdr, 0, gate,
                    IF gate.pass THEN 1 ELSE 0, NoToken, 0, NoBusiness)
  IN
  /\ Handed(p, "my-events")
  /\ Taken(p)
  /\ IF ~gate.pass THEN Refused(p, obs, gate.status)
     ELSE IF method # "GET" THEN Refused(p, obs, StatusMethodNotAllowed)
     ELSE Proceed(p, "myEventsSelect", [obs EXCEPT !.target = Atoi(gate.xid)])
  /\ UNCHANGED <<now, jwtSecret, users, sessions, businesses,
                 nextBusinessId, eventLog, issued, revoked, reg,
                 logVars, eventVars, bookingVars, imageVars,
                 requestCount, requestMutex, counted, profileVars>>

\* SELECT ... FROM events WHERE owner_id = ?, then the 200 with the rows
GetMyEventsSelect(p) ==
  LET obs == call[p].obs IN
  /\ call[p].pc = "myEventsSelect"
  /\ Answer(p, [obs EXCEPT
                  !.after = {e \in events : e.owner_id = obs.target}],
            StatusOK)
  /\ UNCHANGED <<now, jwtSecret, users, sessions, businesses,
                 nextBusinessId, eventLog, issued, revoked, reg,
                 logVars, eventVars, bookingVars, imageVars, countVars,
                 profileVars>>

(* ------------------------------- logEvent ------------------------------ *)
\* append under eventMutex; beyond the cap the oldest entry is dropped
logEvent(log, eventType, id) ==
  LET grown == Append(log, [type |-> eventType, id |-> id]) IN
  IF Len(grown) > EventLogCap THEN Tail(grown) ELSE grown

(* ------------------- logEvent, statement by statement ------------------ *)
\* Lock() returns at once, whoever holds the mutex
MutexFree_NoExclusion == TRUE

\* eventMutex.Lock() returns only while no goroutine holds the mutex
MutexFree == eventMutex = 0

\* goroutines that are inside logEvent
Logging == {p \in Conns : logger[p] # "idle"}

\* a handler on connection p calls logEvent
LogCall(p) ==
  /\ logger[p] = "idle"
  /\ appended + Cardinality(Logging) < MaxEvents
  /\ logger' = [logger EXCEPT ![p] = "lock"]
  /\ UNCHANGED <<now, jwtSecret, users, sessions, businesses,
                 nextBusinessId, eventLog, issued, revoked, last, reg,
                 eventMutex, appended, eventVars, bookingVars,
                 imageVars, countVars, call, profileVars>>

\* eventMutex.Lock()
LogLock(p) ==
  /\ logger[p] = "lock"
  /\ MutexFree
  /\ eventMutex' = p
  /\ logger' = [logger EXCEPT ![p] = "append"]
  /\ UNCHANGED <<now, jwtSecret, users, sessions, businesses,
                 nextBusinessId, eventLog, issued, revoked, last, reg,
                 appended, eventVars, bookingVars, imageVars,
                 countVars, call, profileVars>>

\* eventLog = append(eventLog, event)
LogAppend(p) ==
  /\ logger[p] = "append"
  /\ eventLog' = Append(eventLog, [type |-> "request", id |-> appended + 1])
  /\ appended' = appended + 1
  /\ logger' = [logger EXCEPT ![p] = "trim"]
  /\ UNCHANGED <<now, jwtSecret, users, sessions, businesses,
                 nextBusinessId, issued, revoked, last, reg,
                 eventMutex, eventVars, bookingVars, imageVars,
                 countVars, call, profileVars>>

\* if len(eventLog) > 100 { eventLog = eventLog[1:] }
LogTrim(p) ==
  /\ logger[p] = "trim"
  /\ eventLog' = IF Len(eventLog) > EventLogCap THEN Tail(eventLog) ELSE eventLog
  /\ logger' = [logger EXCEPT ![p] = "unlock"]
  /\ UNCHANGED <<now, jwtSecret, users, sessions, businesses,
                 nextBusinessId, issued, revoked, last, reg,
                 eventMutex, appended, eventVars, bookingVars,
                 imageVars, countVars, call, profileVars>>

\* eventMutex.Unlock()
LogUnlock(p) ==
  /\ logger[p] = "unlock"
  /\ eventMutex' = 0
  /\ logger' = [logger EXCEPT ![p] = "idle"]
  /\ UNCHANGED <<now, jwtSecret, users, sessions, businesses,
                 nextBusinessId, eventLog, issued, revoked, last, reg,
                 appended, eventVars, bookingVars, imageVars,
                 countVars, call, profileVars>>

\* the handlers that call logEvent before they answer
LogsEvent(obs) ==
  \/ obs.route \in {"businesses", "business-events"}
  \/ obs.route = "bookings" /\ obs.method = "POST"

\* connections whose handler has still to call logEvent
AboutToLog == {q \in Conns : LogsEvent(call[q].obs)}

\* the log the model keeps has room for the entry of one more request
LogRoom == Len(eventLog) + Cardinality(AboutToLog) < MaxLogged

\* logEvent(eventType, ...) with the id the handler holds, from Lock() to
\* Unlock() in one step once the mutex is free, then the response
LogAndAnswer(p, eventType, status) ==
  /\ MutexFree
  /\ eventLog' = logEvent(eventLog, eventType, call[p].obs.target)
  /\ appended' = appended + 1
  /\ Answer(p, call[p].obs, status)

(* ------------------------- deletion of a users row --------------------- *)
\* sessions.user_id carries no foreign key: the rows of a deleted user stay
CascadeSessions_NoForeignKey(id) == {}

\* FOREIGN KEY (user_id) REFERENCES users(id) ON DELETE CASCADE
CascadeSessions(id) == {s \in sessions : s.user_id = id}

\* events.owner_id REFERENCES users(id) ON DELETE CASCADE
CascadeEvents(id) == {e \in events : e.owner_id = id}

\* images.uploaded_by REFERENCES users(id) ON DELETE SET NULL
SetNullUploader(id) ==
  {IF i.uploaded_by = <<id>> THEN [i EXCEPT !.uploaded_by = <<>>] ELSE i :
     i \in images}

\* businesses.owner_id REFERENCES business_owners(id) without ON DELETE: the
\* cascade from users to business_owners is refused while a business remains
DeleteRestricted(id) == \E b \in businesses : b.owner_id = id

\* DELETE FROM users WHERE id = ?, run against the schema of createTables:
\* business_owners and event_owners rows go with the user (ON DELETE CASCADE)
DeleteUser(id) ==
  /\ id \in 1..Len(users)
  /\ users[id] # NoUser
  /\ IF DeleteRestricted(id)
     THEN UNCHANGED <<users, sessions, events, bookings, images,
                      business_owners, event_owners>>
     ELSE /\ users' = [users EXCEPT ![id] = NoUser]
          /\ business_owners' = business_owners \ {id}
          /\ event_owners' = event_owners \ {id}
          /\ sessions' = sessions \ CascadeSessions(id)
          /\ events' = events \ CascadeEvents(id)
          /\ bookings' = {b \in bookings :
                            \A e \in CascadeEvents(id) : b.event_id # e.id}
          /\ images' = SetNullUploader(id)
  /\ UNCHANGED <<now, jwtSecret, businesses, nextBusinessId, eventLog,
                 issued, revoked, last, reg, logVars, nextEventId,
                 nextBookingId, nextImageId, img, image_metadata,
                 countVars, call>>

(* ------------------------------ /businesses ---------------------------- *)
BusinessById(id) == {b \in businesses : b.id = id}

RowOrNone(id) ==
  IF BusinessById(id) = {} THEN NoBusiness ELSE CHOOSE b \in BusinessById(id) : TRUE

\* bodies of POST /businesses: one complete, one with a required field missing
CreateBusinessRequests ==
  {[name |-> "Bella Pizza", category |-> "Restaurant",
    description |-> "Authentic Italian pizza", rating |-> r] : r \in {0, 48}}
    \cup {[name |-> "Bella Pizza", category |-> "", description |-> "",
           rating |-> 0]}

\* bodies of PUT /businesses: any subset of the fields, for any id
UpdateBusinessRequests ==
  [id : 1..MaxBusinessId, name : {"", "Renamed"}, category : {""},
   description : {""}, rating : {0, 30}]

\* what the client of a request on /businesses has seen so far
ServedBusiness(method, hdr, gate, id, body, pre) ==
  [Served("businesses", method, hdr, 0, gate, IF gate.pass THEN 1 ELSE 0,
          NoToken, id, pre)
     EXCEPT !.sent = {body}]

\* connections whose handler has still to INSERT INTO businesses
InsertingBusiness == {q \in Conns : call[q].pc = "createBusinessInsert"}

\* businessesRouter hands a POST to businessOwnerOnly(createBusinessHandler):
\* the gate and the checks of the body, up to the INSERT
CreateBusiness(p) ==
  LET hdr == counter[p].hdr
      req == counter[p].body
      gate == businessOwnerOnly(hdr)
      obs == ServedBusiness("POST", hdr, gate, 0, req, NoBusiness)
  IN
  /\ Handed(p, "businesses") /\ counter[p].method = "POST"
  /\ Taken(p)
  /\ IF ~gate.pass THEN Refused(p, obs, gate.status)
     ELSE IF req.name = "" \/ req.category = "" \/ req.description = ""
     THEN Refused(p, obs, StatusBadRequest)
     ELSE /\ nextBusinessId + Cardinality(InsertingBusiness) <= MaxBusinessId
          /\ LogRoom
          /\ Proceed(p, "createBusinessInsert", obs)
  /\ UNCHANGED <<now, jwtSecret, users, sessions, businesses,
                 nextBusinessId, eventLog, issued, revoked, reg,
                 logVars, eventVars, bookingVars, imageVars,
                 requestCount, requestMutex, counted, profileVars>>

\* INSERT INTO businesses (..., owner_id) VALUES (...): refused by the foreign
\* key when business_owners has no row for the owner
CreateBusinessInsert(p) ==
  LET obs == call[p].obs
      req == BodyOf(p)
      ownerID == Atoi(obs.xid)
      row == [id |-> nextBusinessId, owner_id |-> ownerID, name |-> req.name,
              category |-> req.category, description |-> req.description,
              rating |-> req.rating]
  IN
  /\ call[p].pc = "createBusinessInsert"
  /\ IF ownerID \notin business_owners
     THEN /\ Answer(p, obs, StatusInternalServerError)
          /\ UNCHANGED <<businesses, nextBusinessId>>
     ELSE /\ businesses' = businesses \cup {row}
          /\ nextBusinessId' = nextBusinessId + 1
          /\ Proceed(p, "createBusinessLog", [obs EXCEPT !.target = row.id])
  /\ UNCHANGED <<now, jwtSecret, users, sessions, eventLog, issued, revoked,
                 reg, logVars, eventVars, bookingVars, imageVars,
                 countVars, profileVars>>

\* logEvent("business_created", ...) and the 201
CreateBusinessLog(p) ==
  /\ call[p].pc = "createBusinessLog"
  /\ LogAndAnswer(p, "business_created", StatusCreated)
  /\ UNCHANGED <<now, jwtSecret, users, sessions, businesses,
                 nextBusinessId, issued, revoked, reg, eventMutex,
                 logger, eventVars, bookingVars, imageVars, countVars,
                 profileVars>>

\* the row after UPDATE businesses SET <fields present> WHERE id = ?
UpdatedBusiness(b, req) ==
  [b EXCEPT !.name = IF req.name # "" THEN req.name ELSE @,
            !.category = IF req.category # "" THEN req.category ELSE @,
            !.description = IF req.description # "" THEN req.description ELSE @,
            !.rating = IF req.rating > 0 THEN req.rating ELSE @]

\* businessesRouter hands a PUT to businessOwnerOnly(updateBusinessHandler):
\* the gate and the building of the SET list, up to the UPDATE
UpdateBusiness(p) ==
  LET hdr == counter[p].hdr
      req == counter[p].body
      gate == businessOwnerOnly(hdr)
      noFields == req.name = "" /\ req.category = "" /\ req.description = ""
                    /\ ~(req.rating > 0)
      obs == ServedBusiness("PUT", hdr, gate, req.id, req, RowOrNone(req.id))
  IN
  /\ Handed(p, "businesses") /\ counter[p].method = "PUT"
  /\ Taken(p)
  /\ IF ~gate.pass THEN Refused(p, obs, gate.status)
     ELSE IF noFields THEN Refused(p, obs, StatusBadRequest)
     ELSE /\ LogRoom
          /\ Proceed(p, "updateBusinessUpdate", obs)
  /\ UNCHANGED <<now, jwtSecret, users, sessions, businesses,
                 nextBusinessId, eventLog, issued, revoked, reg,
                 logVars, eventVars, bookingVars, imageVars,
                 requestCount, requestMutex, counted, profileVars>>

\* UPDATE businesses SET ... WHERE id = ?: no error when no row has the id
UpdateBusinessUpdate(p) ==
  LET obs == call[p].obs
      req == BodyOf(p)
  IN
  /\ call[p].pc = "updateBusinessUpdate"
  /\ businesses' = {IF b.id = req.id THEN UpdatedBusiness(b, req) ELSE b :
                      b \in businesses}
  /\ Proceed(p, "updateBusinessSelect", [obs EXCEPT !.pre = RowOrNone(req.id)])
  /\ UNCHANGED <<now, jwtSecret, users, sessions, nextBusinessId, eventLog,
                 issued, revoked, reg, logVars, eventVars, bookingVars,
                 imageVars, countVars, profileVars>>

\* SELECT ... FROM businesses WHERE id = ?: the 500 when no row is there
UpdateBusinessSelect(p) ==
  /\ call[p].pc = "updateBusinessSelect"
  /\ IF BusinessById(call[p].obs.target) = {}
     THEN Answer(p, call[p].obs, StatusInternalServerError)
     ELSE Proceed(p, "updateBusinessLog", call[p].obs)
  /\ UNCHANGED <<now, jwtSecret, users, sessions, businesses,
                 nextBusinessId, eventLog, issued, revoked, reg,
                 logVars, eventVars, bookingVars, imageVars, countVars,
                 profileVars>>

\* logEvent("business_updated", ...) and the 200
UpdateBusinessLog(p) ==
  /\ call[p].pc = "updateBusinessLog"
  /\ LogAndAnswer(p, "business_updated", StatusOK)
  /\ UNCHANGED <<now, jwtSecret, users, sessions, businesses,
                 nextBusinessId, issued, revoked, reg, eventMutex,
                 logger, eventVars, bookingVars, imageVars, countVars,
                 profileVars>>

\* events.business_id REFERENCES businesses(id) ON DELETE SET NULL
SetNullBusiness(id) ==
  {IF e.business_id = <<id>> THEN [e EXCEPT !.business_id = <<>>] ELSE e :
     e \in events}

\* businessesRouter hands a DELETE to businessOwnerOnly(deleteBusinessHandler):
\* the gate, up to the SELECT of the row
DeleteBusiness(p) ==
  LET hdr == counter[p].hdr
      id == counter[p].body.id
      gate == businessOwnerOnly(hdr)
      obs == ServedBusiness("DELETE", hdr, gate, id, counter[p].body,
                            RowOrNone(id))
  IN
  /\ Handed(p, "businesses") /\ counter[p].method = "DELETE"
  /\ Taken(p)
  /\ IF ~gate.pass THEN Refused(p, obs, gate.status)
     ELSE /\ LogRoom
          /\ Proceed(p, "deleteBusinessSelect", obs)
  /\ UNCHANGED <<now, jwtSecret, users, sessions, businesses,
                 nextBusinessId, eventLog, issued, revoked, reg,
                 logVars, eventVars, bookingVars, imageVars,
                 requestCount, requestMutex, counted, profileVars>>

\* SELECT id, name FROM businesses WHERE id = ?: the 404 when no row is there
DeleteBusinessSelect(p) ==
  LET obs == call[p].obs
      id == obs.target
  IN
  /\ call[p].pc = "deleteBusinessSelect"
  /\ IF BusinessById(id) = {}
     THEN Answer(p, [obs EXCEPT !.pre = NoBusiness], StatusNotFound)
     ELSE Proceed(p, "deleteBusinessDelete", [obs EXCEPT !.pre = RowOrNone(id)])
  /\ UNCHANGED <<now, jwtSecret, users, sessions, businesses,
                 nextBusinessId, eventLog, issued, revoked, reg,
                 logVars, eventVars, bookingVars, imageVars, countVars,
                 profileVars>>

\* DELETE FROM businesses WHERE id = ?: no error when the row is gone
DeleteBusinessDelete(p) ==
  LET id == call[p].obs.target IN
  /\ call[p].pc = "deleteBusinessDelete"
  /\ businesses' = businesses \ BusinessById(id)
  /\ events' = IF BusinessById(id) = {} THEN events ELSE SetNullBusiness(id)
  /\ Proceed(p, "deleteBusinessLog", call[p].obs)
  /\ UNCHANGED <<now, jwtSecret, users, sessions, nextBusinessId, eventLog,
                 issued, revoked, reg, logVars, nextEventId,
                 bookingVars, imageVars, countVars, profileVars>>

\* logEvent("business_deleted", ...) and the 200
DeleteBusinessLog(p) ==
  /\ call[p].pc = "deleteBusinessLog"
  /\ LogAndAnswer(p, "business_deleted", StatusOK)
  /\ UNCHANGED <<now, jwtSecret, users, sessions, businesses,
                 nextBusinessId, issued, revoked, reg, eventMutex,
                 logger, eventVars, bookingVars, imageVars, countVars,
                 profileVars>>

(* --------------------------- /business-events ------------------------- *)
\* a *int that is nil, and a column that is NULL
Nil == <<>>

EventById(id) == {e \in events : e.id = id}

\* layouts time.Parse("2006-01-02T15:04", s) accepts
ValidDates == {"2026-01-01T10:00", "2026-02-01T10:00"}

\* time.Parse returns no error
ParseOK(s) == s \in ValidDates

\* bodies of POST /business-events: business_id absent, 0 or a number
CreateEventBodies ==
  [business_id : {Nil, <<0>>} \cup {<<b>> : b \in 1..MaxBusinessId},
   title : {"Launch"}, event_date : {"2026-01-01T10:00", "tomorrow"},
   price : {<<20>>}]
    \cup {[business_id |-> Nil, title |-> "", event_date |-> "2026-01-01T10:00",
           price |-> Nil]}

\* bodies of PUT /business-events: any subset of the fields, for any id
UpdateEventBodies ==
  [id : 1..MaxEventId, title : {"", "Renamed"},
   event_date : {"", "2026-02-01T10:00", "tomorrow"},
   price : {Nil, <<-1>>, <<0>>, <<30>>}]

\* json.Decode into a float64 field: a key that is absent leaves the zero value
DecodePrice(price) == IF price = Nil THEN 0 ELSE price[1]

\* the business is taken to belong to whoever names it
OwnsBusiness_Anyone(b, ownerID) == TRUE

\* businessOwnerID != ownerID is the 403 of createBusinessEventHandler
OwnsBusiness(b, ownerID) == b.owner_id = ownerID

\* the event is taken to belong to whoever names it
OwnsEvent_Anyone(e, ownerID) == TRUE

\* eventOwnerID != ownerID is the 403 of the update and delete handlers
OwnsEvent(e, ownerID) == e.owner_id = ownerID

\* what the client of a request on /business-events has seen so far: the body
\* that was sent and the rows of the named id as they were found last
ServedEvent(method, hdr, gate, id, body, before) ==
  [Served("business-events", method, hdr, 0, gate,
          IF gate.pass THEN 1 ELSE 0, NoToken, id, NoBusiness)
     EXCEPT !.sent = {body}, !.before = before, !.after = before]

\* connections whose handler has still to INSERT INTO events
InsertingEvent ==
  {q \in Conns : call[q].pc \in {"createEventSelect", "createEventInsert"}}

\* the request names a business: req.BusinessID != nil && *req.BusinessID > 0
NamesBusiness(body) == body.business_id # Nil /\ body.business_id[1] > 0

\* businessEventsRouter hands a POST to
\* eventOwnerOnly(createBusinessEventHandler): the gate and the checks of the
\* body, up to the SELECT of the business a business_owner names or, when
\* there is none to make, up to the INSERT
CreateEvent(p) ==
  LET hdr == counter[p].hdr
      body == counter[p].body
      gate == eventOwnerOnly(hdr)
      checked == NamesBusiness(body) /\ gate.xtype = "business_owner"
      obs == ServedEvent("POST", hdr, gate, 0, body, {})
  IN
  /\ Handed(p, "business-events") /\ counter[p].method = "POST"
  /\ Taken(p)
  /\ IF ~gate.pass THEN Refused(p, obs, gate.status)
     ELSE IF body.title = "" \/ body.event_date = ""
     THEN Refused(p, obs, StatusBadRequest)
     ELSE IF ~checked /\ ~ParseOK(body.event_date)
     THEN Refused(p, obs, StatusBadRequest)
     ELSE /\ nextEventId + Cardinality(InsertingEvent) <= MaxEventId
          /\ LogRoom
          /\ Proceed(p, IF checked THEN "createEventSelect"
                        ELSE "createEventInsert", obs)
  /\ UNCHANGED <<now, jwtSecret, users, sessions, businesses,
                 nextBusinessId, eventLog, issued, revoked, reg,
                 logVars, eventVars, bookingVars, imageVars,
                 requestCount, requestMutex, counted, profileVars>>

\* SELECT owner_id FROM businesses WHERE id = ?, the test of the owner and
\* the parsing of the date
CreateEventSelect(p) ==
  LET body == BodyOf(p)
      named == body.business_id[1]
      obs == [call[p].obs EXCEPT !.pre = RowOrNone(named)]
      ownerID == Atoi(obs.xid)
  IN
  /\ call[p].pc = "createEventSelect"
  /\ IF BusinessById(named) = {} THEN Answer(p, obs, StatusNotFound)
     ELSE IF ~OwnsBusiness(RowOrNone(named), ownerID)
     THEN Answer(p, obs, StatusForbidden)
     ELSE IF ~ParseOK(body.event_date) THEN Answer(p, obs, StatusBadRequest)
     ELSE Proceed(p, "createEventInsert", obs)
  /\ UNCHANGED <<now, jwtSecret, users, sessions, businesses,
                 nextBusinessId, eventLog, issued, revoked, reg,
                 logVars, eventVars, bookingVars, imageVars, countVars,
                 profileVars>>

\* INSERT INTO events (...): refused by the foreign keys when the business or
\* the owner is not there
CreateEventInsert(p) ==
  LET obs == call[p].obs
      body == BodyOf(p)
      ownerID == Atoi(obs.xid)
      business_id == IF NamesBusiness(body) /\ obs.xtype # "business_owner"
                     THEN Nil ELSE body.business_id
      row == [id |-> nextEventId, owner_id |-> ownerID,
              business_id |-> business_id, title |-> body.title,
              event_date |-> body.event_date,
              price |-> DecodePrice(body.price)]
  IN
  /\ call[p].pc = "createEventInsert"
  /\ IF \/ business_id # Nil /\ BusinessById(business_id[1]) = {}
        \/ users[ownerID] = NoUser
     THEN /\ Answer(p, obs, StatusInternalServerError)
          /\ UNCHANGED <<events, nextEventId>>
     ELSE /\ events' = events \cup {row}
          /\ nextEventId' = nextEventId + 1
          /\ Proceed(p, "createEventLog",
                     [obs EXCEPT !.target = row.id, !.after = {row}])
  /\ UNCHANGED <<now, jwtSecret, users, sessions, businesses,
                 nextBusinessId, eventLog, issued, revoked, reg,
                 logVars, bookingVars, imageVars, countVars,
                 profileVars>>

\* logEvent("event_created", ...) and the 201
CreateEventLog(p) ==
  /\ call[p].pc = "createEventLog"
  /\ LogAndAnswer(p, "event_created", StatusCreated)
  /\ UNCHANGED <<now, jwtSecret, users, sessions, businesses,
                 nextBusinessId, issued, revoked, reg, eventMutex,
                 logger, eventVars, bookingVars, imageVars, countVars,
                 profileVars>>

\* the row after UPDATE events SET <setParts> WHERE id = ?
UpdatedEvent(e, body) ==
  [e EXCEPT !.title = IF body.title # "" THEN body.title ELSE @,
            !.event_date = IF body.event_date # "" THEN body.event_date ELSE @,
            !.price = IF DecodePrice(body.price) >= 0
                      THEN DecodePrice(body.price) ELSE @]

\* businessEventsRouter hands a PUT to
\* eventOwnerOnly(updateBusinessEventHandler): the gate, up to the SELECT of
\* the owner
UpdateEvent(p) ==
  LET hdr == counter[p].hdr
      body == counter[p].body
      gate == eventOwnerOnly(hdr)
      obs == ServedEvent("PUT", hdr, gate, body.id, body, EventById(body.id))
  IN
  /\ Handed(p, "business-events") /\ counter[p].method = "PUT"
  /\ Taken(p)
  /\ IF ~gate.pass THEN Refused(p, obs, gate.status)
     ELSE /\ LogRoom
          /\ Proceed(p, "updateEventOwner", obs)
  /\ UNCHANGED <<now, jwtSecret, users, sessions, businesses,
                 nextBusinessId, eventLog, issued, revoked, reg,
                 logVars, eventVars, bookingVars, imageVars,
                 requestCount, requestMutex, counted, profileVars>>

\* SELECT owner_id FROM events WHERE id = ?, the test of the owner and the
\* building of the SET list
UpdateEventOwner(p) ==
  LET body == BodyOf(p)
      before == EventById(body.id)
      obs == [call[p].obs EXCEPT !.before = before, !.after = before]
      ownerID == Atoi(obs.xid)
      noParts == body.title = "" /\ body.event_date = ""
                   /\ ~(DecodePrice(body.price) >= 0)
  IN
  /\ call[p].pc = "updateEventOwner"
  /\ IF before = {} THEN Answer(p, obs, StatusNotFound)
     ELSE IF \E e \in before : ~OwnsEvent(e, ownerID)
     THEN Answer(p, obs, StatusForbidden)
     ELSE IF body.event_date # "" /\ ~ParseOK(body.event_date)
     THEN Answer(p, obs, StatusBadRequest)
     ELSE IF noParts THEN Answer(p, obs, StatusBadRequest)
     ELSE Proceed(p, "updateEventUpdate", obs)
  /\ UNCHANGED <<now, jwtSecret, users, sessions, businesses,
                 nextBusinessId, eventLog, issued, revoked, reg,
                 logVars, eventVars, bookingVars, imageVars, countVars,
                 profileVars>>

\* UPDATE events SET ... WHERE id = ?: no error when the row is gone
UpdateEventUpdate(p) ==
  LET obs == call[p].obs
      body == BodyOf(p)
      before == EventById(body.id)
      after == {UpdatedEvent(e, body) : e \in before}
  IN
  /\ call[p].pc = "updateEventUpdate"
  /\ events' = (events \ before) \cup after
  /\ Proceed(p, "updateEventSelect",
             [obs EXCEPT !.before = before, !.after = after])
  /\ UNCHANGED <<now, jwtSecret, users, sessions, businesses,
                 nextBusinessId, eventLog, issued, revoked, reg,
                 logVars, nextEventId, bookingVars, imageVars,
                 countVars, profileVars>>

\* SELECT ... FROM events WHERE id = ?: the 500 when no row is there
UpdateEventSelect(p) ==
  /\ call[p].pc = "updateEventSelect"
  /\ IF EventById(call[p].obs.target) = {}
     THEN Answer(p, call[p].obs, StatusInternalServerError)
     ELSE Proceed(p, "updateEventLog", call[p].obs)
  /\ UNCHANGED <<now, jwtSecret, users, sessions, businesses,
                 nextBusinessId, eventLog, issued, revoked, reg,
                 logVars, eventVars, bookingVars, imageVars, countVars,
                 profileVars>>

\* logEvent("event_updated", ...) and the 200
UpdateEventLog(p) ==
  /\ call[p].pc = "updateEventLog"
  /\ LogAndAnswer(p, "event_updated", StatusOK)
  /\ UNCHANGED <<now, jwtSecret, users, sessions, businesses,
                 nextBusinessId, issued, revoked, reg, eventMutex,
                 logger, eventVars, bookingVars, imageVars, countVars,
                 profileVars>>

\* bookings.event_id REFERENCES events(id) ON DELETE CASCADE
CascadeBookings(ids) == {b \in bookings : b.event_id \in ids}

\* businessEventsRouter hands a DELETE to
\* eventOwnerOnly(deleteBusinessEventHandler): the gate, up to the SELECT of
\* the row
DeleteEvent(p) ==
  LET hdr == counter[p].hdr
      id == counter[p].body.id
      gate == eventOwnerOnly(hdr)
      obs == ServedEvent("DELETE", hdr, gate, id, counter[p].body,
                         EventById(id))
  IN
  /\ Handed(p, "business-events") /\ counter[p].method = "DELETE"
  /\ Taken(p)
  /\ IF ~gate.pass THEN Refused(p, obs, gate.status)
     ELSE /\ LogRoom
          /\ Proceed(p, "deleteEventSelect", obs)
  /\ UNCHANGED <<now, jwtSecret, users, sessions, businesses,
                 nextBusinessId, eventLog, issued, revoked, reg,
                 logVars, eventVars, bookingVars, imageVars,
                 requestCount, requestMutex, counted, profileVars>>

\* SELECT id, title, owner_id FROM events WHERE id = ? and the test of the
\* owner
DeleteEventSelect(p) ==
  LET before == EventById(call[p].obs.target)
      obs == [call[p].obs EXCEPT !.before = before, !.after = before]
      ownerID == Atoi(obs.xid)
  IN
  /\ call[p].pc = "deleteEventSelect"
  /\ IF before = {} THEN Answer(p, obs, StatusNotFound)
     ELSE IF \E e \in before : ~OwnsEvent(e, ownerID)
     THEN Answer(p, obs, StatusForbidden)
     ELSE Proceed(p, "deleteEventDelete", obs)
  /\ UNCHANGED <<now, jwtSecret, users, sessions, businesses,
                 nextBusinessId, eventLog, issued, revoked, reg,
                 logVars, eventVars, bookingVars, imageVars, countVars,
                 profileVars>>

\* DELETE FROM events WHERE id = ?: no error when the row is gone
DeleteEventDelete(p) ==
  LET obs == call[p].obs
      before == EventById(obs.target)
  IN
  /\ call[p].pc = "deleteEventDelete"
  /\ events' = events \ before
  /\ bookings' = bookings \ CascadeBookings({obs.target})
  /\ Proceed(p, "deleteEventLog", [obs EXCEPT !.before = before, !.after = {}])
  /\ UNCHANGED <<now, jwtSecret, users, sessions, businesses,
                 nextBusinessId, eventLog, issued, revoked, reg,
                 logVars, nextEventId, nextBookingId, imageVars,
                 countVars, profileVars>>

\* logEvent("event_deleted", ...) and the 200
DeleteEventLog(p) ==
  /\ call[p].pc = "deleteEventLog"
  /\ LogAndAnswer(p, "event_deleted", StatusOK)
  /\ UNCHANGED <<now, jwtSecret, users, sessions, businesses,
                 nextBusinessId, issued, revoked, reg, eventMutex,
                 logger, eventVars, bookingVars, imageVars, countVars,
                 profileVars>>

(* ------------------------------- /bookings ---------------------------- *)
BookingById(id) == {b \in bookings : b.id = id}

\* status ENUM('pending', 'confirmed', 'cancelled')
BookingStatuses == {"pending", "confirmed", "cancelled"}

\* bodies of POST /bookings
CreateBookingBodies ==
  [event_id : 0..MaxEventId, name : {"Bob"}, email : {"bob@example.com"},
   tickets : {0, 2}]

\* bodies of PUT /bookings: a status of the ENUM and one outside it
UpdateBookingBodies == [id : 1..MaxBookingId, status : {"confirmed", "refunded"}]

\* SELECT e.owner_id FROM bookings b INNER JOIN events e ON b.event_id = e.id
\* WHERE b.id = ?
EventOwnerOfBooking(id) ==
  {e.owner_id : e \in {x \in events : \E b \in BookingById(id) : b.event_id = x.id}}

\* the booking is taken to belong to whoever names it
OwnsBooking_Anyone(eventOwnerID, ownerID) == TRUE

\* eventOwnerID != ownerID is the 403 of the update and delete handlers
OwnsBooking(eventOwnerID, ownerID) == eventOwnerID = ownerID

\* what the client of a request on /bookings has seen so far; before are
\* the rows of the named id as they were found last
ServedBooking(method, hdr, gate, ran, id, body, before) ==
  [Served("bookings", method, hdr, 0, gate, ran, NoToken, id, NoBusiness)
     EXCEPT !.sent = {body}, !.before = before, !.after = before]

\* connections whose handler has still to INSERT INTO bookings
InsertingBooking == {q \in Conns : call[q].pc = "createBookingInsert"}

\* bookingsRouter hands a POST to createBookingHandler, without
\* authMiddleware: the checks of the body and the SELECT of the event
CreateBooking(p) ==
  LET body == counter[p].body
      obs == ServedBooking("POST", NoHeader, NoGate, 1, 0, body, {})
  IN
  /\ Handed(p, "bookings") /\ counter[p].method = "POST"
  /\ Taken(p)
  /\ IF body.event_id = 0 \/ body.name = "" \/ body.email = ""
          \/ body.tickets < 1
     THEN Refused(p, obs, StatusBadRequest)
     ELSE IF EventById(body.event_id) = {} THEN Refused(p, obs, StatusNotFound)
     ELSE /\ nextBookingId + Cardinality(InsertingBooking) <= MaxBookingId
          /\ LogRoom
          /\ Proceed(p, "createBookingInsert", obs)
  /\ UNCHANGED <<now, jwtSecret, users, sessions, businesses,
                 nextBusinessId, eventLog, issued, revoked, reg,
                 logVars, eventVars, bookingVars, imageVars,
                 requestCount, requestMutex, counted, profileVars>>

\* INSERT INTO bookings (...): refused by the foreign key when the event is
\* not there any more
CreateBookingInsert(p) ==
  LET obs == call[p].obs
      body == BodyOf(p)
      row == [id |-> nextBookingId, event_id |-> body.event_id,
              name |-> body.name, email |-> body.email,
              tickets |-> body.tickets, status |-> "pending"]
  IN
  /\ call[p].pc = "createBookingInsert"
  /\ IF EventById(body.event_id) = {}
     THEN /\ Answer(p, obs, StatusInternalServerError)
          /\ UNCHANGED <<bookings, nextBookingId>>
     ELSE /\ bookings' = bookings \cup {row}
          /\ nextBookingId' = nextBookingId + 1
          /\ Proceed(p, "createBookingLog",
                     [obs EXCEPT !.target = row.id, !.after = {row}])
  /\ UNCHANGED <<now, jwtSecret, users, sessions, businesses,
                 nextBusinessId, eventLog, issued, revoked, reg,
                 logVars, eventVars, imageVars, countVars, profileVars>>

\* logEvent("booking_created", ...) and the 201
CreateBookingLog(p) ==
  /\ call[p].pc = "createBookingLog"
  /\ LogAndAnswer(p, "booking_created", StatusCreated)
  /\ UNCHANGED <<now, jwtSecret, users, sessions, businesses,
                 nextBusinessId, issued, revoked, reg, eventMutex,
                 logger, eventVars, bookingVars, imageVars, countVars,
                 profileVars>>

\* bookingsRouter hands a PUT to authMiddleware(updateBookingHandler): the
\* gate, up to the SELECT of the owner of the booking's event
UpdateBooking(p) ==
  LET hdr == counter[p].hdr
      body == counter[p].body
      gate == authMiddleware(hdr)
      obs == ServedBooking("PUT", hdr, gate, gate.next, body.id, body,
                           BookingById(body.id))
  IN
  /\ Handed(p, "bookings") /\ counter[p].method = "PUT"
  /\ Taken(p)
  /\ IF gate.next = 0 THEN Refused(p, obs, gate.status)
     ELSE Proceed(p, "updateBookingSelect", obs)
  /\ UNCHANGED <<now, jwtSecret, users, sessions, businesses,
                 nextBusinessId, eventLog, issued, revoked, reg,
                 logVars, eventVars, bookingVars, imageVars,
                 requestCount, requestMutex, counted, profileVars>>

\* SELECT e.owner_id FROM bookings b INNER JOIN events e ... WHERE b.id = ?
\* and the test of the owner
UpdateBookingSelect(p) ==
  LET body == BodyOf(p)
      owners == EventOwnerOfBooking(body.id)
      before == BookingById(body.id)
      obs == [call[p].obs EXCEPT !.before = before, !.after = before]
      ownerID == Atoi(obs.xid)
  IN
  /\ call[p].pc = "updateBookingSelect"
  /\ IF owners = {} THEN Answer(p, obs, StatusNotFound)
     ELSE IF \E o \in owners : ~OwnsBooking(o, ownerID)
     THEN Answer(p, obs, StatusForbidden)
     ELSE Proceed(p, "updateBookingUpdate", obs)
  /\ UNCHANGED <<now, jwtSecret, users, sessions, businesses,
                 nextBusinessId, eventLog, issued, revoked, reg,
                 logVars, eventVars, bookingVars, imageVars, countVars,
                 profileVars>>

\* UPDATE bookings SET status = ? WHERE id = ?: a status outside the ENUM is
\* an error under a strict sql_mode and is stored as '' otherwise; no error
\* when the row is gone
UpdateBookingUpdate(p, strict) ==
  LET obs == call[p].obs
      body == BodyOf(p)
      before == BookingById(body.id)
      stored == IF body.status \in BookingStatuses THEN body.status ELSE ""
      after == {[b EXCEPT !.status = stored] : b \in before}
  IN
  /\ call[p].pc = "updateBookingUpdate"
  /\ IF body.status \notin BookingStatuses /\ strict
     THEN /\ UNCHANGED bookings
          /\ Answer(p, [obs EXCEPT !.before = before, !.after = before],
                    StatusInternalServerError)
     ELSE /\ bookings' = (bookings \ before) \cup after
          /\ Answer(p, [obs EXCEPT !.before = before, !.after = after],
                    StatusOK)
  /\ UNCHANGED <<now, jwtSecret, users, sessions, businesses,
                 nextBusinessId, eventLog, issued, revoked, reg,
                 logVars, eventVars, nextBookingId, imageVars,
                 countVars, profileVars>>

\* bookingsRouter hands a DELETE to authMiddleware(deleteBookingHandler): the
\* gate, up to the SELECT of the owner of the booking's event
DeleteBooking(p) ==
  LET hdr == counter[p].hdr
      id == counter[p].body.id
      gate == authMiddleware(hdr)
      obs == ServedBooking("DELETE", hdr, gate, gate.next, id,
                           counter[p].body, BookingById(id))
  IN
  /\ Handed(p, "bookings") /\ counter[p].method = "DELETE"
  /\ Taken(p)
  /\ IF gate.next = 0 THEN Refused(p, obs, gate.status)
     ELSE Proceed(p, "deleteBookingSelect", obs)
  /\ UNCHANGED <<now, jwtSecret, users, sessions, businesses,
                 nextBusinessId, eventLog, issued, revoked, reg,
                 logVars, eventVars, bookingVars, imageVars,
                 requestCount, requestMutex, counted, profileVars>>

\* SELECT e.owner_id FROM bookings b INNER JOIN events e ... WHERE b.id = ?
\* and the test of the owner
DeleteBookingSelect(p) ==
  LET id == call[p].obs.target
      owners == EventOwnerOfBooking(id)
      before == BookingById(id)
      obs == [call[p].obs EXCEPT !.before = before, !.after = before]
      ownerID == Atoi(obs.xid)
  IN
  /\ call[p].pc = "deleteBookingSelect"
  /\ IF owners = {} THEN Answer(p, obs, StatusNotFound)
     ELSE IF \E o \in owners : ~OwnsBooking(o, ownerID)
     THEN Answer(p, obs, StatusForbidden)
     ELSE Proceed(p, "deleteBookingDelete", obs)
  /\ UNCHANGED <<now, jwtSecret, users, sessions, businesses,
                 nextBusinessId, eventLog, issued, revoked, reg,
                 logVars, eventVars, bookingVars, imageVars, countVars,
                 profileVars>>

\* DELETE FROM bookings WHERE id = ?: no error when the row is gone
DeleteBookingDelete(p) ==
  LET obs == call[p].obs
      before == BookingById(obs.target)
  IN
  /\ call[p].pc = "deleteBookingDelete"
  /\ bookings' = bookings \ before
  /\ Answer(p, [obs EXCEPT !.before = before, !.after = {}], StatusOK)
  /\ UNCHANGED <<now, jwtSecret, users, sessions, businesses,
                 nextBusinessId, eventLog, issued, revoked, reg,
                 logVars, eventVars, nextBookingId, imageVars,
                 countVars, profileVars>>

(* -------------------------------- /images ------------------------------ *)
ImageById(id) == {i \in images : i.id = id}

\* rows WHERE entity_type = ? AND entity_id = ?
ImagesOf(imgs, entity_type, entity_id) ==
  {i \in imgs : i.entity_type = entity_type /\ i.entity_id = entity_id}

\* UPDATE images SET is_primary = FALSE WHERE entity_type = ? AND entity_id = ?
UnsetPrimary(imgs, entity_type, entity_id) ==
  {IF i \in ImagesOf(imgs, entity_type, entity_id)
   THEN [i EXCEPT !.is_primary = FALSE] ELSE i : i \in imgs}

\* ... AND id != ?
UnsetOtherPrimary(imgs, entity_type, entity_id, id) ==
  {IF i \in ImagesOf(imgs, entity_type, entity_id) /\ i.id # id
   THEN [i EXCEPT !.is_primary = FALSE] ELSE i : i \in imgs}

\* SELECT MAX(display_order) ..., plus one; 0 for an entity without images
NextDisplayOrder(imgs, entity_type, entity_id) ==
  LET of == ImagesOf(imgs, entity_type, entity_id) IN
  IF of = {} THEN 0
  ELSE (CHOOSE m \in {i.display_order : i \in of} :
          \A i \in of : i.display_order <= m) + 1

\* uploadedBy: the X-User-ID header parsed, nil when it is empty
UploadedBy(xid) == IF xid = <<>> THEN Nil ELSE <<Atoi(xid)>>

\* UPDATE images SET caption = ?, display_order = ?, is_primary = ? WHERE id = ?
UpdatedImage(i, caption, display_order, is_primary) ==
  [i EXCEPT !.caption = caption, !.display_order = display_order,
            !.is_primary = is_primary]

\* bodies of POST /images/add-url
AddImageBodies ==
  [entity_type : {"business"}, entity_id : {0, 1}, image_url : {"https://cdn/a.png"},
   caption : {""}, is_primary : BOOLEAN]
    \cup {[entity_type |-> "event", entity_id |-> 1,
           image_url |-> "https://cdn/a.png", caption |-> "",
           is_primary |-> TRUE]}

\* bodies of PUT /images/update
UpdateImageBodies ==
  [id : 1..MaxImageId, caption : {"", "Front"}, display_order : {0},
   is_primary : BOOLEAN]

\* what the client of a request on one of the /images routes has seen so far
ServedImage(route, method, hdr, gate, id, body) ==
  [Served(route, method, hdr, 0, gate, gate.next, NoToken, id, NoBusiness)
     EXCEPT !.sent = {body}]

(* ---------------- the image handlers, statement by statement ----------- *)
\* requests that will still INSERT INTO images
Inserting == {p \in Conns : img[p].pc \in {"unset", "order", "insert"}}

\* the image request on connection p is answered before any statement has run
ImgRefused(p, obs, status) ==
  /\ last' = [obs EXCEPT !.status = status]
  /\ UNCHANGED img

\* the image request on connection p is answered and its handler returns
ImgAnswer(p, obs, status) ==
  /\ last' = [obs EXCEPT !.status = status]
  /\ img' = [img EXCEPT ![p] = NoImageRequest]

\* forms of POST /images/upload: entity_id arrives as a string and "0" is
\* accepted; image_url stands for the file part
UploadForms ==
  [entity_type : {"business"}, entity_id : {1}, image_url : {"", "a.png"},
   caption : {""}, is_primary : {TRUE}]

\* authMiddleware(uploadImageHandler) or authMiddleware(addImageURLHandler)
\* takes the request of connection p: the gate and the checks of the body,
\* up to the first statement on the images table
ImgArrive(p) ==
  LET route == counter[p].route
      hdr == counter[p].hdr
      body == counter[p].body
      gate == authMiddleware(hdr)
      obs == ServedImage(route, counter[p].method, hdr, gate, 0, body)
  IN
  /\ counter[p].pc = "next"
  /\ route \in {"images/upload", "images/add-url"}
  /\ Taken(p)
  /\ IF gate.next = 0 THEN ImgRefused(p, obs, gate.status)
     ELSE IF counter[p].method # "POST"
     THEN ImgRefused(p, obs, StatusMethodNotAllowed)
     ELSE IF body.entity_type = "" \/ body.image_url = ""
               \/ (route = "images/add-url" /\ body.entity_id = 0)
     THEN ImgRefused(p, obs, StatusBadRequest)
     ELSE /\ nextImageId + Cardinality(Inserting) <= MaxImageId
          /\ img' = [img EXCEPT ![p] =
               [NoImageRequest EXCEPT
                  !.pc = IF body.is_primary THEN "unset" ELSE "order",
                  !.route = route,
                  !.entity_type = body.entity_type,
                  !.entity_id = body.entity_id,
                  !.caption = body.caption,
                  !.is_primary = body.is_primary,
                  !.uploaded_by = UploadedBy(gate.xid),
                  !.obs = obs]]
          /\ UNCHANGED last
  /\ UNCHANGED <<now, jwtSecret, users, sessions, businesses,
                 nextBusinessId, eventLog, issued, revoked, reg,
                 logVars, eventVars, bookingVars, images, nextImageId,
                 image_metadata, requestCount, requestMutex, counted,
                 call, profileVars>>

\* if isPrimary { UPDATE images SET is_primary = FALSE WHERE ... }; an error
\* of this statement is only logged
ImgUnset(p) ==
  /\ img[p].pc = "unset"
  /\ images' = UnsetPrimary(images, img[p].entity_type, img[p].entity_id)
  /\ img' = [img EXCEPT ![p].pc = "order"]
  /\ UNCHANGED <<now, jwtSecret, users, sessions, businesses,
                 nextBusinessId, eventLog, issued, revoked, last, reg,
                 logVars, eventVars, bookingVars, nextImageId,
                 image_metadata, countVars, call, profileVars>>

\* SELECT MAX(display_order) FROM images WHERE ...
ImgOrder(p) ==
  /\ img[p].pc = "order"
  /\ img' = [img EXCEPT ![p].pc = "insert",
                        ![p].display_order =
                          NextDisplayOrder(images, img[p].entity_type,
                                           img[p].entity_id)]
  /\ UNCHANGED <<now, jwtSecret, users, sessions, businesses,
                 nextBusinessId, eventLog, issued, revoked, last, reg,
                 logVars, eventVars, bookingVars, images, nextImageId,
                 image_metadata, countVars, call, profileVars>>

\* INSERT INTO images (...) VALUES (...); refused by the foreign key of
\* uploaded_by when the user is not there any more.  addImageURLHandler
\* writes its 201 next, uploadImageHandler goes on to the metadata
ImgInsert(p) ==
  LET row == [id |-> nextImageId, entity_type |-> img[p].entity_type,
              entity_id |-> img[p].entity_id, caption |-> img[p].caption,
              display_order |-> img[p].display_order,
              is_primary |-> img[p].is_primary,
              uploaded_by |-> img[p].uploaded_by]
  IN
  /\ img[p].pc = "insert"
  /\ IF \E i \in 1..Len(row.uploaded_by) : users[row.uploaded_by[i]] = NoUser
     THEN /\ UNCHANGED <<images, nextImageId>>
          /\ ImgAnswer(p, img[p].obs, StatusInternalServerError)
     ELSE /\ images' = images \cup {row}
          /\ nextImageId' = nextImageId + 1
          /\ IF img[p].route = "images/upload"
             THEN /\ img' = [img EXCEPT
                       ![p].pc = "metadata", ![p].id = row.id,
                       ![p].obs = [img[p].obs EXCEPT !.target = row.id,
                                                    !.after = {row}]]
                  /\ UNCHANGED last
             ELSE ImgAnswer(p, [img[p].obs EXCEPT !.target = row.id,
                                                 !.after = {row}],
                            StatusCreated)
  /\ UNCHANGED <<now, jwtSecret, users, sessions, businesses,
                 nextBusinessId, eventLog, issued, revoked, reg,
                 logVars, eventVars, bookingVars, image_metadata,
                 countVars, call, profileVars>>

\* uploadImageHandler: INSERT INTO image_metadata (image_id, ...) VALUES
\* (imageID, ...), then the 201 with the image as it was inserted.  The
\* statement fails when the images row is gone again (FOREIGN KEY image_id);
\* its error is only logged
ImgInsertMetadata(p) ==
  /\ img[p].pc = "metadata"
  /\ image_metadata' = IF ImageById(img[p].id) # {}
                       THEN image_metadata \cup {img[p].id}
                       ELSE image_metadata
  /\ ImgAnswer(p, img[p].obs, StatusCreated)
  /\ UNCHANGED <<now, jwtSecret, users, sessions, businesses,
                 nextBusinessId, eventLog, issued, revoked, reg,
                 logVars, eventVars, bookingVars, images, nextImageId,
                 countVars, call, profileVars>>

\* authMiddleware(updateImageHandler) takes the request of connection p: the
\* gate and the decoding of the body
ImgArriveUpdate(p) ==
  LET hdr == counter[p].hdr
      body == counter[p].body
      gate == authMiddleware(hdr)
      obs == ServedImage("images/update", counter[p].method, hdr, gate,
                         body.id, body)
  IN
  /\ Handed(p, "images/update")
  /\ Taken(p)
  /\ IF gate.next = 0 THEN ImgRefused(p, obs, gate.status)
     ELSE IF counter[p].method # "PUT"
     THEN ImgRefused(p, obs, StatusMethodNotAllowed)
     ELSE /\ img' = [img EXCEPT ![p] =
               [NoImageRequest EXCEPT
                  !.pc = "select", !.route = "images/update", !.id = body.id,
                  !.caption = body.caption,
                  !.display_order = body.display_order,
                  !.is_primary = body.is_primary,
                  !.obs = obs]]
          /\ UNCHANGED last
  /\ UNCHANGED <<now, jwtSecret, users, sessions, businesses,
                 nextBusinessId, eventLog, issued, revoked, reg,
                 logVars, eventVars, bookingVars, images, nextImageId,
                 image_metadata, requestCount, requestMutex, counted,
                 call, profileVars>>

\* SELECT entity_type, entity_id FROM images WHERE id = ?
ImgSelect(p) ==
  LET before == ImageById(img[p].id)
      found == CHOOSE i \in before : TRUE
      obs == [img[p].obs EXCEPT !.before = before, !.after = before]
  IN
  /\ img[p].pc = "select"
  /\ IF before = {} THEN ImgAnswer(p, obs, StatusNotFound)
     ELSE /\ img' = [img EXCEPT ![p] =
               [@ EXCEPT !.pc = IF img[p].is_primary THEN "unsetOthers"
                                ELSE "update",
                         !.entity_type = found.entity_type,
                         !.entity_id = found.entity_id,
                         !.obs = obs]]
          /\ UNCHANGED last
  /\ UNCHANGED <<now, jwtSecret, users, sessions, businesses,
                 nextBusinessId, eventLog, issued, revoked, reg,
                 logVars, eventVars, bookingVars, images, nextImageId,
                 image_metadata, countVars, call, profileVars>>

\* if req.IsPrimary { UPDATE images SET is_primary = FALSE ... AND id != ? }
ImgUnsetOthers(p) ==
  /\ img[p].pc = "unsetOthers"
  /\ images' = UnsetOtherPrimary(images, img[p].entity_type, img[p].entity_id,
                                 img[p].id)
  /\ img' = [img EXCEPT ![p].pc = "update"]
  /\ UNCHANGED <<now, jwtSecret, users, sessions, businesses,
                 nextBusinessId, eventLog, issued, revoked, last, reg,
                 logVars, eventVars, bookingVars, nextImageId,
                 image_metadata, countVars, call, profileVars>>

\* UPDATE images SET caption = ?, display_order = ?, is_primary = ? WHERE id = ?
\* and the 200; no error when the row is gone
ImgUpdate(p) ==
  LET before == ImageById(img[p].id)
      after == {UpdatedImage(i, img[p].caption, img[p].display_order,
                             img[p].is_primary) : i \in before}
  IN
  /\ img[p].pc = "update"
  /\ images' = (images \ before) \cup after
  /\ ImgAnswer(p, [img[p].obs EXCEPT !.before = before, !.after = after],
               StatusOK)
  /\ UNCHANGED <<now, jwtSecret, users, sessions, businesses,
                 nextBusinessId, eventLog, issued, revoked, reg,
                 logVars, eventVars, bookingVars, nextImageId,
                 image_metadata, countVars, call, profileVars>>

\* authMiddleware(deleteImageHandler) takes the request of connection p: the
\* gate and the parsing of the id
ImgArriveDelete(p) ==
  LET hdr == counter[p].hdr
      id == counter[p].body.id
      gate == authMiddleware(hdr)
      obs == ServedImage("images/delete", counter[p].method, hdr, gate, id,
                         counter[p].body)
  IN
  /\ Handed(p, "images/delete")
  /\ Taken(p)
  /\ IF gate.next = 0 THEN ImgRefused(p, obs, gate.status)
     ELSE IF counter[p].method # "DELETE"
     THEN ImgRefused(p, obs, StatusMethodNotAllowed)
     ELSE /\ img' = [img EXCEPT ![p] =
               [NoImageRequest EXCEPT
                  !.pc = "selectPath", !.route = "images/delete", !.id = id,
                  !.obs = obs]]
          /\ UNCHANGED last
  /\ UNCHANGED <<now, jwtSecret, users, sessions, businesses,
                 nextBusinessId, eventLog, issued, revoked, reg,
                 logVars, eventVars, bookingVars, images, nextImageId,
                 image_metadata, requestCount, requestMutex, counted,
                 call, profileVars>>

\* SELECT storage_path FROM images WHERE id = ?
ImgSelectPath(p) ==
  LET before == ImageById(img[p].id)
      obs == [img[p].obs EXCEPT !.before = before, !.after = before]
  IN
  /\ img[p].pc = "selectPath"
  /\ IF before = {} THEN ImgAnswer(p, obs, StatusNotFound)
     ELSE /\ img' = [img EXCEPT ![p].pc = "delete", ![p].obs = obs]
          /\ UNCHANGED last
  /\ UNCHANGED <<now, jwtSecret, users, sessions, businesses,
                 nextBusinessId, eventLog, issued, revoked, reg,
                 logVars, eventVars, bookingVars, images, nextImageId,
                 image_metadata, countVars, call, profileVars>>

\* DELETE FROM images WHERE id = ? and the 200; no error when the row is
\* gone, and a failure to remove the file is only logged.  The rows of
\* image_metadata go with the image (ON DELETE CASCADE)
ImgDelete(p) ==
  LET before == ImageById(img[p].id) IN
  /\ img[p].pc = "delete"
  /\ images' = images \ before
  /\ image_metadata' = image_metadata \ {i.id : i \in before}
  /\ ImgAnswer(p, [img[p].obs EXCEPT !.before = before, !.after = {}], StatusOK)
  /\ UNCHANGED <<now, jwtSecret, users, sessions, businesses,
                 nextBusinessId, eventLog, issued, revoked, reg,
                 logVars, eventVars, bookingVars, nextImageId,
                 countVars, call, profileVars>>

(* --------------------------------- Next -------------------------------- *)
\* the server is between two responses: every response is looked at, with
\* the tables as they are when it is written, before the next step is taken
Ready == last = Idle

\* every request that has left corsMiddleware has been taken over by the
\* function registered for its route
Dispatched == \A p \in Conns : counter[p].pc # "next"

\* between two responses, and next(w, r) of corsMiddleware is taken at once
Steady == Ready /\ Dispatched

\* no handler is between two statements: what a client that waits for each
\* response before it sends its next request finds
Quiet == \A p \in Conns : Free(p)

\* no registration is between two statements
Settled == \A p \in Conns : reg[p].pc = "idle"

\* the connection of a client that sends one request at a time
OneConn == {1}

\* complete registrations of a new address with one of the given types
Applicants(types) ==
  {r \in RegisterRequests :
     r.name # "" /\ r.email \in NewEmails /\ r.password # "" /\ r.type \in types}

\* headers of clients that present nothing or a token this server issued
IssuedHeaders == {NoHeader} \cup {Bearer(t) : t \in issued}

\* headers of clients that also send X-User-ID / X-User-Type of their own
SpoofedHeaders == {Spoof(h, x) : h \in IssuedHeaders, x \in ClientIdentities}

\* bodies of POST /business-events that pass the checks of the handler and
\* name no business
PlainEvents ==
  {c \in CreateEventBodies :
     c.business_id = Nil /\ c.title # "" /\ ParseOK(c.event_date)}

\* bodies of PUT /business-events that carry a new title and nothing else
Renames ==
  {c \in UpdateEventBodies : c.title # "" /\ c.event_date = "" /\ c.price = Nil}

\* bodies of PUT /businesses that carry a new name and nothing else
BusinessRenames == {c \in UpdateBusinessRequests : c.name # "" /\ c.rating = 0}

\* bodies of POST /businesses that leave the rating out
UnratedBusinesses == {c \in CreateBusinessRequests : c.rating = 0}

\* bodies of POST /images/add-url for a business
BusinessImages == {c \in AddImageBodies : c.entity_type = "business"}

\* bodies of POST /images/add-url that pass the checks of the handler and do
\* not ask for the primary image
PlainImages == {c \in AddImageBodies : ~c.is_primary /\ c.entity_id # 0}

\* bodies of PUT /images/update that carry a caption and nothing else
Captions == {c \in UpdateImageBodies : c.caption # "" /\ ~c.is_primary}

\* bodies of PUT /images/update that keep the caption
PrimaryUpdates == {c \in UpdateImageBodies : c.caption = ""}

\* the login of the seeded owner
SeedLogin == [email |-> SeedOwners[1].email, password |-> SeedPassword]

\* one client that waits for each response: registration, login, logout and
\* the two read-only role-gated routes
NextAuth ==
  \/ Deliver
  \/ Steady /\ Quiet /\ Tick
  \/ Steady /\ Quiet /\ \E p \in OneConn, r \in RegisterRequests :
       corsMiddleware(p, Request("register", "POST", NoHeader, r))
  \/ Ready /\ \E p \in OneConn : RegArrive(p)
  \/ Steady /\ \E p \in OneConn, dbUp \in BOOLEAN : RegInsertUser(p, dbUp)
  \/ Steady /\ \E p \in OneConn, dbUp \in BOOLEAN : RegInsertProfile(p, dbUp)
  \/ Steady /\ \E p \in OneConn, dbUp \in BOOLEAN : RegSelect(p, dbUp)
  \/ Steady /\ \E p \in OneConn, d \in ClockReads, dbUp \in BOOLEAN :
       RegGenerateToken(p, d, dbUp)
  \/ Steady /\ Quiet /\ \E p \in OneConn, r \in LoginRequests :
       corsMiddleware(p, Request("login", "POST", NoHeader, r))
  \/ Ready /\ \E p \in OneConn, dbUp \in BOOLEAN : Login(p, dbUp)
  \/ Steady /\ \E p \in OneConn, d \in ClockReads, dbUp \in BOOLEAN :
       LoginGenerateToken(p, d, dbUp)
  \/ Steady /\ Quiet /\ \E p \in OneConn, m \in {"POST", "GET"}, h \in Headers :
       corsMiddleware(p, Request("logout", m, h, NoBody))
  \/ Ready /\ \E p \in OneConn : Logout(p)
  \/ Steady /\ \E p \in OneConn : LogoutDelete(p)
  \/ Steady /\ Quiet /\ \E p \in OneConn, m \in {"GET", "POST"}, h \in Headers :
       corsMiddleware(p, Request("my-businesses", m, h, NoBody))
  \/ Ready /\ \E p \in OneConn : GetMyBusinesses(p)
  \/ Steady /\ \E p \in OneConn : GetMyBusinessesSelect(p)
  \/ Steady /\ Quiet /\ \E p \in OneConn, m \in {"GET", "POST"}, h \in Headers :
       corsMiddleware(p, Request("my-events", m, h, NoBody))
  \/ Ready /\ \E p \in OneConn : GetMyEvents(p)
  \/ Steady /\ \E p \in OneConn : GetMyEventsSelect(p)

\* registrations on several connections, interleaved between statements
\* with one another and with logins
NextRegister ==
  \/ Deliver
  \/ Steady /\ \E p \in Conns, r \in RegisterRequests :
       corsMiddleware(p, Request("register", "POST", NoHeader, r))
  \/ Ready /\ \E p \in Conns : RegArrive(p)
  \/ Steady /\ \E p \in Conns, dbUp \in BOOLEAN : RegInsertUser(p, dbUp)
  \/ Steady /\ \E p \in Conns, dbUp \in BOOLEAN : RegInsertProfile(p, dbUp)
  \/ Steady /\ \E p \in Conns, dbUp \in BOOLEAN : RegSelect(p, dbUp)
  \/ Steady /\ \E p \in Conns, d \in {0}, dbUp \in BOOLEAN :
       RegGenerateToken(p, d, dbUp)
  \/ Steady /\ \E p \in Conns, r \in LoginRequests :
       corsMiddleware(p, Request("login", "POST", NoHeader, r))
  \/ Ready /\ \E p \in Conns, dbUp \in BOOLEAN : Login(p, dbUp)
  \/ Steady /\ \E p \in Conns, d \in {0}, dbUp \in BOOLEAN :
       LoginGenerateToken(p, d, dbUp)

\* logins, and logouts on several connections, interleaved between the
\* SELECT of the gate and the DELETE of the handler
NextLogout ==
  \/ Deliver
  \/ Steady /\ Tick
  \/ Steady /\ \E p \in OneConn, r \in LoginRequests :
       corsMiddleware(p, Request("login", "POST", NoHeader, r))
  \/ Ready /\ \E p \in OneConn, dbUp \in BOOLEAN : Login(p, dbUp)
  \/ Steady /\ \E p \in OneConn, d \in ClockReads, dbUp \in BOOLEAN :
       LoginGenerateToken(p, d, dbUp)
  \/ Steady /\ \E p \in Conns, m \in {"POST", "GET"}, h \in Headers :
       corsMiddleware(p, Request("logout", m, h, NoBody))
  \/ Ready /\ \E p \in Conns : Logout(p)
  \/ Steady /\ \E p \in Conns : LogoutDelete(p)

\* registration of business owners, login, and the routes of /businesses
\* on several connections, interleaved between statements
NextBusiness ==
  \/ Deliver
  \/ Steady /\ Quiet /\ \E p \in OneConn, r \in Applicants({"business_owner"}) :
       corsMiddleware(p, Request("register", "POST", NoHeader, r))
  \/ Ready /\ \E p \in OneConn : RegArrive(p)
  \/ Steady /\ \E p \in OneConn, dbUp \in BOOLEAN : RegInsertUser(p, dbUp)
  \/ Steady /\ \E p \in OneConn, dbUp \in BOOLEAN : RegInsertProfile(p, dbUp)
  \/ Steady /\ \E p \in OneConn, dbUp \in BOOLEAN : RegSelect(p, dbUp)
  \/ Steady /\ \E p \in OneConn, d \in {0}, dbUp \in BOOLEAN :
       RegGenerateToken(p, d, dbUp)
  \/ Steady /\ Settled /\ \E p \in OneConn, r \in LoginRequests :
       corsMiddleware(p, Request("login", "POST", NoHeader, r))
  \/ Ready /\ \E p \in OneConn, dbUp \in {TRUE} : Login(p, dbUp)
  \/ Steady /\ \E p \in OneConn, d \in {0}, dbUp \in {TRUE} :
       LoginGenerateToken(p, d, dbUp)
  \/ Steady /\ Settled /\ \E p \in Conns, m \in {"POST"}, h \in IssuedHeaders :
       corsMiddleware(p, Request("logout", m, h, NoBody))
  \/ Ready /\ \E p \in Conns : Logout(p)
  \/ Steady /\ \E p \in Conns : LogoutDelete(p)
  \/ Steady /\ Settled /\ \E p \in OneConn, h \in IssuedHeaders, r \in UnratedBusinesses :
       corsMiddleware(p,
         Request("businesses", "POST", h, r))
  \/ Ready /\ \E p \in OneConn : CreateBusiness(p)
  \/ Steady /\ \E p \in OneConn : CreateBusinessInsert(p)
  \/ Steady /\ \E p \in OneConn : CreateBusinessLog(p)
  \/ Steady /\ Settled /\ \E p \in Conns, h \in IssuedHeaders, r \in BusinessRenames :
       corsMiddleware(p,
         Request("businesses", "PUT", h, r))
  \/ Ready /\ \E p \in Conns : UpdateBusiness(p)
  \/ Steady /\ \E p \in Conns : UpdateBusinessUpdate(p)
  \/ Steady /\ \E p \in Conns : UpdateBusinessSelect(p)
  \/ Steady /\ \E p \in Conns : UpdateBusinessLog(p)
  \/ Steady /\ Settled /\ \E p \in Conns, h \in IssuedHeaders, id \in 1..MaxBusinessId :
       corsMiddleware(p,
         Request("businesses", "DELETE", h, [id |-> id]))
  \/ Ready /\ \E p \in Conns : DeleteBusiness(p)
  \/ Steady /\ \E p \in Conns : DeleteBusinessSelect(p)
  \/ Steady /\ \E p \in Conns : DeleteBusinessDelete(p)
  \/ Steady /\ \E p \in Conns : DeleteBusinessLog(p)

\* logEvent calls of concurrent requests, interleaved between statements
NextLog ==
  \/ \E p \in Conns : LogCall(p)
  \/ \E p \in Conns : LogLock(p)
  \/ \E p \in Conns : LogAppend(p)
  \/ \E p \in Conns : LogTrim(p)
  \/ \E p \in Conns : LogUnlock(p)

\* registrations on several connections, login, a read behind
\* authMiddleware, and deletion of users between any two statements
NextUsers ==
  \/ Deliver
  \/ Steady /\ \E p \in Conns, r \in RegisterRequests :
       corsMiddleware(p, Request("register", "POST", NoHeader, r))
  \/ Ready /\ \E p \in Conns : RegArrive(p)
  \/ Steady /\ \E p \in Conns, dbUp \in {TRUE} : RegInsertUser(p, dbUp)
  \/ Steady /\ \E p \in Conns, dbUp \in {TRUE} : RegInsertProfile(p, dbUp)
  \/ Steady /\ \E p \in Conns, dbUp \in {TRUE} : RegSelect(p, dbUp)
  \/ Steady /\ \E p \in Conns, d \in {0}, dbUp \in {TRUE} :
       RegGenerateToken(p, d, dbUp)
  \/ Steady /\ \E p \in Conns, r \in LoginRequests :
       corsMiddleware(p, Request("login", "POST", NoHeader, r))
  \/ Ready /\ \E p \in Conns, dbUp \in {TRUE} : Login(p, dbUp)
  \/ Steady /\ \E p \in Conns, d \in {0}, dbUp \in {TRUE} :
       LoginGenerateToken(p, d, dbUp)
  \/ Steady /\ \E p \in Conns, m \in {"GET"}, h \in Headers :
       corsMiddleware(p, Request("my-events", m, h, NoBody))
  \/ Ready /\ \E p \in Conns : GetMyEvents(p)
  \/ Steady /\ \E p \in Conns : GetMyEventsSelect(p)
  \/ Steady /\ \E id \in 1..MaxUsers : DeleteUser(id)

\* registration of event owners, login, and the routes of /business-events
\* on several connections, interleaved between statements
NextEvents ==
  \/ Deliver
  \/ Steady /\ Quiet /\ \E p \in OneConn, r \in Applicants({"event_owner"}) :
       corsMiddleware(p, Request("register", "POST", NoHeader, r))
  \/ Ready /\ \E p \in OneConn : RegArrive(p)
  \/ Steady /\ \E p \in OneConn, dbUp \in {TRUE} : RegInsertUser(p, dbUp)
  \/ Steady /\ \E p \in OneConn, dbUp \in {TRUE} : RegInsertProfile(p, dbUp)
  \/ Steady /\ \E p \in OneConn, dbUp \in {TRUE} : RegSelect(p, dbUp)
  \/ Steady /\ \E p \in OneConn, d \in {0}, dbUp \in {TRUE} :
       RegGenerateToken(p, d, dbUp)
  \/ Steady /\ Settled /\ \E p \in OneConn, r \in LoginRequests :
       corsMiddleware(p, Request("login", "POST", NoHeader, r))
  \/ Ready /\ \E p \in OneConn, dbUp \in {TRUE} : Login(p, dbUp)
  \/ Steady /\ \E p \in OneConn, d \in {0}, dbUp \in {TRUE} :
       LoginGenerateToken(p, d, dbUp)
  \/ Steady /\ Settled /\ \E p \in Conns, h \in IssuedHeaders, b \in PlainEvents :
       corsMiddleware(p,
         Request("business-events", "POST", h, b))
  \/ Ready /\ \E p \in Conns : CreateEvent(p)
  \/ Steady /\ \E p \in Conns : CreateEventInsert(p)
  \/ Steady /\ \E p \in Conns : CreateEventLog(p)
  \/ Steady /\ Settled /\ \E p \in Conns, h \in IssuedHeaders, b \in Renames :
       corsMiddleware(p, Request("business-events", "PUT", h, b))
  \/ Ready /\ \E p \in Conns : UpdateEvent(p)
  \/ Steady /\ \E p \in Conns : UpdateEventOwner(p)
  \/ Steady /\ \E p \in Conns : UpdateEventUpdate(p)
  \/ Steady /\ \E p \in Conns : UpdateEventSelect(p)
  \/ Steady /\ \E p \in Conns : UpdateEventLog(p)
  \/ Steady /\ Settled /\ \E p \in Conns, h \in IssuedHeaders, id \in 1..MaxEventId :
       corsMiddleware(p,
         Request("business-events", "DELETE", h, [id |-> id]))
  \/ Ready /\ \E p \in Conns : DeleteEvent(p)
  \/ Steady /\ \E p \in Conns : DeleteEventSelect(p)
  \/ Steady /\ \E p \in Conns : DeleteEventDelete(p)
  \/ Steady /\ \E p \in Conns : DeleteEventLog(p)

\* one client that waits for each response: registration, login, and the
\* routes of /business-events with every body; events name no business
NextEventFields ==
  \/ Deliver
  \/ Steady /\ Quiet /\ \E p \in OneConn, r \in RegisterRequests :
       corsMiddleware(p, Request("register", "POST", NoHeader, r))
  \/ Ready /\ \E p \in OneConn : RegArrive(p)
  \/ Steady /\ \E p \in OneConn, dbUp \in {TRUE} : RegInsertUser(p, dbUp)
  \/ Steady /\ \E p \in OneConn, dbUp \in {TRUE} : RegInsertProfile(p, dbUp)
  \/ Steady /\ \E p \in OneConn, dbUp \in {TRUE} : RegSelect(p, dbUp)
  \/ Steady /\ \E p \in OneConn, d \in {0}, dbUp \in {TRUE} :
       RegGenerateToken(p, d, dbUp)
  \/ Steady /\ Quiet /\ \E p \in OneConn, r \in LoginRequests :
       corsMiddleware(p, Request("login", "POST", NoHeader, r))
  \/ Ready /\ \E p \in OneConn, dbUp \in {TRUE} : Login(p, dbUp)
  \/ Steady /\ \E p \in OneConn, d \in {0}, dbUp \in {TRUE} :
       LoginGenerateToken(p, d, dbUp)
  \/ Steady /\ Quiet /\ \E p \in OneConn, h \in IssuedHeaders, b \in {c \in CreateEventBodies : c.business_id = Nil} :
       corsMiddleware(p,
         Request("business-events", "POST", h, b))
  \/ Ready /\ \E p \in OneConn : CreateEvent(p)
  \/ Steady /\ \E p \in OneConn : CreateEventInsert(p)
  \/ Steady /\ \E p \in OneConn : CreateEventLog(p)
  \/ Steady /\ Quiet /\ \E p \in OneConn, h \in IssuedHeaders, b \in UpdateEventBodies :
       corsMiddleware(p,
         Request("business-events", "PUT", h, b))
  \/ Ready /\ \E p \in OneConn : UpdateEvent(p)
  \/ Steady /\ \E p \in OneConn : UpdateEventOwner(p)
  \/ Steady /\ \E p \in OneConn : UpdateEventUpdate(p)
  \/ Steady /\ \E p \in OneConn : UpdateEventSelect(p)
  \/ Steady /\ \E p \in OneConn : UpdateEventLog(p)
  \/ Steady /\ Quiet /\ \E p \in OneConn, h \in IssuedHeaders, id \in 1..MaxEventId :
       corsMiddleware(p,
         Request("business-events", "DELETE", h, [id |-> id]))
  \/ Ready /\ \E p \in OneConn : DeleteEvent(p)
  \/ Steady /\ \E p \in OneConn : DeleteEventSelect(p)
  \/ Steady /\ \E p \in OneConn : DeleteEventDelete(p)
  \/ Steady /\ \E p \in OneConn : DeleteEventLog(p)

\* registration of owners, login, and on several connections the creation
\* of events that name a business and the deletion of businesses
NextLinks ==
  \/ Deliver
  \/ Steady /\ Quiet /\ \E p \in OneConn, r \in Applicants({"business_owner", "event_owner"}) :
       corsMiddleware(p,
         Request("register", "POST", NoHeader, r))
  \/ Ready /\ \E p \in OneConn : RegArrive(p)
  \/ Steady /\ \E p \in OneConn, dbUp \in {TRUE} : RegInsertUser(p, dbUp)
  \/ Steady /\ \E p \in OneConn, dbUp \in {TRUE} : RegInsertProfile(p, dbUp)
  \/ Steady /\ \E p \in OneConn, dbUp \in {TRUE} : RegSelect(p, dbUp)
  \/ Steady /\ \E p \in OneConn, d \in {0}, dbUp \in {TRUE} :
       RegGenerateToken(p, d, dbUp)
  \/ Steady /\ Settled /\ \E p \in OneConn, r \in LoginRequests :
       corsMiddleware(p, Request("login", "POST", NoHeader, r))
  \/ Ready /\ \E p \in OneConn, dbUp \in {TRUE} : Login(p, dbUp)
  \/ Steady /\ \E p \in OneConn, d \in {0}, dbUp \in {TRUE} :
       LoginGenerateToken(p, d, dbUp)
  \/ Steady /\ Settled /\ \E p \in Conns, h \in IssuedHeaders, b \in {c \in CreateEventBodies : ParseOK(c.event_date)} :
       corsMiddleware(p,
         Request("business-events", "POST", h, b))
  \/ Ready /\ \E p \in Conns : CreateEvent(p)
  \/ Steady /\ \E p \in Conns : CreateEventSelect(p)
  \/ Steady /\ \E p \in Conns : CreateEventInsert(p)
  \/ Steady /\ \E p \in Conns : CreateEventLog(p)
  \/ Steady /\ Settled /\ \E p \in Conns, h \in IssuedHeaders, id \in 1..MaxBusinessId :
       corsMiddleware(p,
         Request("businesses", "DELETE", h, [id |-> id]))
  \/ Ready /\ \E p \in Conns : DeleteBusiness(p)
  \/ Steady /\ \E p \in Conns : DeleteBusinessSelect(p)
  \/ Steady /\ \E p \in Conns : DeleteBusinessDelete(p)
  \/ Steady /\ \E p \in Conns : DeleteBusinessLog(p)

\* registration of event owners, login, creation of events and bookings by
\* one client, and on several connections the deletion of events and the
\* update and deletion of bookings
NextBookings ==
  \/ Deliver
  \/ Steady /\ Quiet /\ \E p \in OneConn, r \in Applicants({"event_owner"}) :
       corsMiddleware(p, Request("register", "POST", NoHeader, r))
  \/ Ready /\ \E p \in OneConn : RegArrive(p)
  \/ Steady /\ \E p \in OneConn, dbUp \in {TRUE} : RegInsertUser(p, dbUp)
  \/ Steady /\ \E p \in OneConn, dbUp \in {TRUE} : RegInsertProfile(p, dbUp)
  \/ Steady /\ \E p \in OneConn, dbUp \in {TRUE} : RegSelect(p, dbUp)
  \/ Steady /\ \E p \in OneConn, d \in {0}, dbUp \in {TRUE} :
       RegGenerateToken(p, d, dbUp)
  \/ Steady /\ Settled /\ \E p \in OneConn, r \in LoginRequests :
       corsMiddleware(p, Request("login", "POST", NoHeader, r))
  \/ Ready /\ \E p \in OneConn, dbUp \in {TRUE} : Login(p, dbUp)
  \/ Steady /\ \E p \in OneConn, d \in {0}, dbUp \in {TRUE} :
       LoginGenerateToken(p, d, dbUp)
  \/ Steady /\ Settled /\ \E p \in OneConn, h \in IssuedHeaders, b \in PlainEvents :
       corsMiddleware(p,
         Request("business-events", "POST", h, b))
  \/ Ready /\ \E p \in OneConn : CreateEvent(p)
  \/ Steady /\ \E p \in OneConn : CreateEventInsert(p)
  \/ Steady /\ \E p \in OneConn : CreateEventLog(p)
  \/ Steady /\ Settled /\ \E p \in Conns, h \in IssuedHeaders, id \in 1..MaxEventId :
       corsMiddleware(p,
         Request("business-events", "DELETE", h, [id |-> id]))
  \/ Ready /\ \E p \in Conns : DeleteEvent(p)
  \/ Steady /\ \E p \in Conns : DeleteEventSelect(p)
  \/ Steady /\ \E p \in Conns : DeleteEventDelete(p)
  \/ Steady /\ \E p \in Conns : DeleteEventLog(p)
  \/ Steady /\ Settled /\ \E p \in OneConn, b \in CreateBookingBodies :
       corsMiddleware(p, Request("bookings", "POST", NoHeader, b))
  \/ Ready /\ \E p \in OneConn : CreateBooking(p)
  \/ Steady /\ \E p \in OneConn : CreateBookingInsert(p)
  \/ Steady /\ \E p \in OneConn : CreateBookingLog(p)
  \/ Steady /\ Settled /\ \E p \in Conns, h \in IssuedHeaders, b \in UpdateBookingBodies :
       corsMiddleware(p,
         Request("bookings", "PUT", h, b))
  \/ Ready /\ \E p \in Conns : UpdateBooking(p)
  \/ Steady /\ \E p \in Conns : UpdateBookingSelect(p)
  \/ Steady /\ \E p \in Conns, strict \in BOOLEAN :
       UpdateBookingUpdate(p, strict)
  \/ Steady /\ Settled /\ \E p \in Conns, h \in IssuedHeaders, id \in 1..MaxBookingId :
       corsMiddleware(p,
         Request("bookings", "DELETE", h, [id |-> id]))
  \/ Ready /\ \E p \in Conns : DeleteBooking(p)
  \/ Steady /\ \E p \in Conns : DeleteBookingSelect(p)
  \/ Steady /\ \E p \in Conns : DeleteBookingDelete(p)

\* registration, login, POST /images/add-url by one client, and on several
\* connections the update and deletion of images
NextImages ==
  \/ Deliver
  \/ Steady /\ Quiet /\ \E p \in OneConn, r \in Applicants({"event_owner"}) :
       corsMiddleware(p, Request("register", "POST", NoHeader, r))
  \/ Ready /\ \E p \in OneConn : RegArrive(p)
  \/ Steady /\ \E p \in OneConn, dbUp \in {TRUE} : RegInsertUser(p, dbUp)
  \/ Steady /\ \E p \in OneConn, dbUp \in {TRUE} : RegInsertProfile(p, dbUp)
  \/ Steady /\ \E p \in OneConn, dbUp \in {TRUE} : RegSelect(p, dbUp)
  \/ Steady /\ \E p \in OneConn, d \in {0}, dbUp \in {TRUE} :
       RegGenerateToken(p, d, dbUp)
  \/ Steady /\ Settled /\ \E p \in OneConn, r \in LoginRequests :
       corsMiddleware(p, Request("login", "POST", NoHeader, r))
  \/ Ready /\ \E p \in OneConn, dbUp \in {TRUE} : Login(p, dbUp)
  \/ Steady /\ \E p \in OneConn, d \in {0}, dbUp \in {TRUE} :
       LoginGenerateToken(p, d, dbUp)
  \/ Steady /\ Settled /\ \E p \in OneConn, h \in IssuedHeaders, b \in PlainImages :
       corsMiddleware(p,
         Request("images/add-url", "POST", h, b))
  \/ Ready /\ \E p \in OneConn : ImgArrive(p)
  \/ Steady /\ \E p \in OneConn : ImgOrder(p)
  \/ Steady /\ \E p \in OneConn : ImgInsert(p)
  \/ Steady /\ Settled /\ \E p \in Conns, h \in IssuedHeaders, b \in Captions :
       corsMiddleware(p, Request("images/update", "PUT", h, b))
  \/ Ready /\ \E p \in Conns : ImgArriveUpdate(p)
  \/ Steady /\ \E p \in Conns : ImgSelect(p)
  \/ Steady /\ \E p \in Conns : ImgUpdate(p)
  \/ Steady /\ Settled /\ \E p \in Conns, h \in IssuedHeaders, id \in 1..MaxImageId :
       corsMiddleware(p,
         Request("images/delete", "DELETE", h, [id |-> id]))
  \/ Ready /\ \E p \in Conns : ImgArriveDelete(p)
  \/ Steady /\ \E p \in Conns : ImgSelectPath(p)
  \/ Steady /\ \E p \in Conns : ImgDelete(p)

\* login, and image requests on several connections, interleaved between
\* their statements on the images table
NextPrimary ==
  \/ Deliver
  \/ Steady /\ \E p \in OneConn, r \in LoginRequests :
       corsMiddleware(p, Request("login", "POST", NoHeader, r))
  \/ Ready /\ \E p \in OneConn, dbUp \in {TRUE} : Login(p, dbUp)
  \/ Steady /\ \E p \in OneConn, d \in {0}, dbUp \in {TRUE} :
       LoginGenerateToken(p, d, dbUp)
  \/ Steady /\ \E p \in Conns, h \in IssuedHeaders, b \in BusinessImages :
       corsMiddleware(p, Request("images/add-url", "POST", h, b))
  \/ Steady /\ \E p \in Conns, h \in IssuedHeaders, b \in UploadForms :
       corsMiddleware(p, Request("images/upload", "POST", h, b))
  \/ Ready /\ \E p \in Conns : ImgArrive(p)
  \/ Steady /\ \E p \in Conns : ImgUnset(p)
  \/ Steady /\ \E p \in Conns : ImgOrder(p)
  \/ Steady /\ \E p \in Conns : ImgInsert(p)
  \/ Steady /\ \E p \in Conns : ImgInsertMetadata(p)
  \/ Steady /\ \E p \in Conns, h \in IssuedHeaders, b \in PrimaryUpdates :
       corsMiddleware(p, Request("images/update", "PUT", h, b))
  \/ Ready /\ \E p \in Conns : ImgArriveUpdate(p)
  \/ Steady /\ \E p \in Conns : ImgSelect(p)
  \/ Steady /\ \E p \in Conns : ImgUnsetOthers(p)
  \/ Steady /\ \E p \in Conns : ImgUpdate(p)

\* requests on /stats and a login from several connections, interleaved
\* between the statements of corsMiddleware and of the handlers
NextCount ==
  \/ Deliver
  \/ \E p \in Conns, m \in {"GET", "POST", "OPTIONS"} :
       CorsArrive(p, Request("stats", m, NoHeader, NoBody))
  \/ \E p \in Conns : CorsArrive(p, Request("login", "POST", NoHeader, SeedLogin))
  \/ \E p \in Conns : CorsLock(p)
  \/ \E p \in Conns : CorsLoad(p)
  \/ \E p \in Conns : CorsStore(p)
  \/ \E p \in Conns : CorsUnlock(p)
  \/ \E p \in Conns : StatsLock(p)
  \/ \E p \in Conns : StatsRead(p)
  \/ \E p \in Conns : StatsUnlock(p)
  \/ Ready /\ \E p \in Conns : Login(p, TRUE)
  \/ Ready /\ \E p \in Conns : LoginGenerateToken(p, 0, TRUE)

\* one client that waits for each response and puts identity headers of its
\* own on its requests behind the three gates
NextSpoof ==
  \/ Deliver
  \/ Steady /\ Quiet /\ \E p \in OneConn, r \in RegisterRequests :
       corsMiddleware(p, Request("register", "POST", NoHeader, r))
  \/ Ready /\ \E p \in OneConn : RegArrive(p)
  \/ Steady /\ \E p \in OneConn, dbUp \in {TRUE} : RegInsertUser(p, dbUp)
  \/ Steady /\ \E p \in OneConn, dbUp \in {TRUE} : RegInsertProfile(p, dbUp)
  \/ Steady /\ \E p \in OneConn, dbUp \in {TRUE} : RegSelect(p, dbUp)
  \/ Steady /\ \E p \in OneConn, d \in {0}, dbUp \in {TRUE} :
       RegGenerateToken(p, d, dbUp)
  \/ Steady /\ Quiet /\ \E p \in OneConn, r \in LoginRequests :
       corsMiddleware(p, Request("login", "POST", NoHeader, r))
  \/ Ready /\ \E p \in OneConn, dbUp \in {TRUE} : Login(p, dbUp)
  \/ Steady /\ \E p \in OneConn, d \in {0}, dbUp \in {TRUE} :
       LoginGenerateToken(p, d, dbUp)
  \/ Steady /\ Quiet /\ \E p \in OneConn, h \in SpoofedHeaders, b \in PlainEvents :
       corsMiddleware(p,
         Request("business-events", "POST", h, b))
  \/ Ready /\ \E p \in OneConn : CreateEvent(p)
  \/ Steady /\ \E p \in OneConn : CreateEventInsert(p)
  \/ Steady /\ \E p \in OneConn : CreateEventLog(p)
  \/ Steady /\ Quiet /\ \E p \in OneConn, h \in SpoofedHeaders, id \in 1..MaxEventId :
       corsMiddleware(p,
         Request("business-events", "DELETE", h, [id |-> id]))
  \/ Ready /\ \E p \in OneConn : DeleteEvent(p)
  \/ Steady /\ \E p \in OneConn : DeleteEventSelect(p)
  \/ Steady /\ \E p \in OneConn : DeleteEventDelete(p)
  \/ Steady /\ \E p \in OneConn : DeleteEventLog(p)
  \/ Steady /\ Quiet /\ \E p \in OneConn, m \in {"GET"}, h \in SpoofedHeaders :
       corsMiddleware(p, Request("my-businesses", m, h, NoBody))
  \/ Ready /\ \E p \in OneConn : GetMyBusinesses(p)
  \/ Steady /\ \E p \in OneConn : GetMyBusinessesSelect(p)
  \/ Steady /\ Quiet /\ \E p \in OneConn, h \in SpoofedHeaders, b \in {c \in AddImageBodies : c.entity_id # 0 /\ ~c.is_primary} :
       corsMiddleware(p,
         Request("images/add-url", "POST", h, b))
  \/ Ready /\ \E p \in OneConn : ImgArrive(p)
  \/ Steady /\ \E p \in OneConn : ImgOrder(p)
  \/ Steady /\ \E p \in OneConn : ImgInsert(p)

Next == NextAuth \/ NextRegister \/ NextLogout \/ NextBusiness \/ NextLog
          \/ NextUsers \/ NextEvents \/ NextEventFields \/ NextLinks
          \/ NextBookings \/ NextImages \/ NextPrimary \/ NextCount
          \/ NextSpoof

Spec == Init /\ [][Next]_vars

SpecAuth == Init /\ [][NextAuth]_vars

SpecRegister == Init /\ [][NextRegister]_vars

SpecLogout == Init /\ [][NextLogout]_vars

SpecBusiness == Init /\ [][NextBusiness]_vars

SpecLog == Init /\ [][NextLog]_vars

SpecUsers == Init /\ [][NextUsers]_vars

SpecEvents == Init /\ [][NextEvents]_vars

SpecEventFields == Init /\ [][NextEventFields]_vars

SpecLinks == Init /\ [][NextLinks]_vars

SpecBookings == Init /\ [][NextBookings]_vars

SpecImages == Init /\ [][NextImages]_vars

SpecPrimary == Init /\ [][NextPrimary]_vars

SpecCount == Init /\ [][NextCount]_vars

SpecSpoof == Init /\ [][NextSpoof]_vars

(* ======================== properties of the auth core ================== *)
\* routes registered behind authMiddleware (directly or through a role gate)
AuthRoutes == {"logout", "my-businesses", "my-events", "businesses"}

BusinessOwnerRoutes == {"my-businesses", "businesses"}

EventOwnerRoutes == {"my-events"}

\* the last request presented a token this server handed out
PresentedIssued == last.hdr.kind = "bearer" /\ last.hdr.token \in issued

\* both validator checks held for the presented token when it arrived
PassedBoth == last.hdr.kind = "bearer" /\ last.liveRow /\ last.jwtOK

\* the users row a token was minted for
MintedFor(tok) == users[CHOOSE i \in 1..Len(users) : users[i].email = tok.email]

\* C1: once POST /logout with T1 has returned 200, every later request
\* presenting T1 on a route behind authMiddleware gets 401, while a second
\* token of the same user that was not logged out and has not expired still
\* passes authentication.
C1_LogoutRevokesOnlyThatToken ==
  last.route \in AuthRoutes =>
    /\ last.wasRevoked => last.status = StatusUnauthorized
    /\ (PresentedIssued /\ ~last.wasRevoked /\ ~last.expired)
         => last.status # StatusUnauthorized

\* C2: every login with correct credentials succeeds and returns a token
\* string that was never returned before, also within one clock second.
C2_LoginsYieldDistinctTokens ==
  (last.route = "login" /\ last.credOK /\ ~last.dbErr) =>
    /\ last.status = StatusOK
    /\ last.fresh

\* C3: authenticateToken lets a request through if and only if the presented
\* token has a live session row and also verifies as a JWT (signature under
\* the process secret, unexpired claims); one of the two is not enough.
C3_BothChecksRequired ==
  last.route \in AuthRoutes => ((last.authNext = 1) <=> PassedBoth)

\* a token with a live row whose claims have expired was turned away
C3_RowOnlyRejected ==
  /\ last.route \in AuthRoutes
  /\ last.liveRow /\ ~last.jwtOK
  /\ last.authNext = 0 /\ last.status = StatusUnauthorized

\* a correctly signed, unexpired token whose row is gone was turned away
C3_SignatureOnlyRejected ==
  /\ last.route \in AuthRoutes
  /\ ~last.liveRow /\ last.jwtOK
  /\ last.authNext = 0 /\ last.status = StatusUnauthorized

\* C4: a POST /logout presenting a well-formed bearer token whose session
\* row is already gone or expired is answered 200.
C4_LogoutIdempotent ==
  (last.route = "logout" /\ last.method = "POST" /\ PresentedIssued
     /\ ~last.liveRow)
    => last.status = StatusOK

\* C5: a logout presenting a token whose row still exists with
\* expires_at <= now removes that row.
C5_LogoutDeletesExpiredRow ==
  (last.route = "logout" /\ last.method = "POST" /\ last.staleRow)
    => SessionRows(last.hdr.token) = {}

\* C7: a businessOwnerOnly route answers an authenticated user or event_owner
\* with 403 without running the handler; an eventOwnerOnly route runs the
\* handler for event_owner and business_owner and answers user with 403; a
\* request that does not authenticate gets 401 on both.
C7_RoleGating ==
  /\ (last.route \in BusinessOwnerRoutes /\ PassedBoth
        /\ last.rowRole \in {"user", "event_owner"})
       => (last.status = StatusForbidden /\ last.ran = 0)
  /\ (last.route \in EventOwnerRoutes /\ PassedBoth
        /\ last.rowRole \in {"event_owner", "business_owner"})
       => last.ran = 1
  /\ (last.route \in EventOwnerRoutes /\ PassedBoth /\ last.rowRole = "user")
       => (last.status = StatusForbidden /\ last.ran = 0)
  /\ (last.route \in BusinessOwnerRoutes \cup EventOwnerRoutes /\ ~PassedBoth)
       => (last.status = StatusUnauthorized /\ last.ran = 0)

\* an event_owner was refused on a business-owner route
C7_EventOwnerForbidden ==
  /\ last.route \in BusinessOwnerRoutes
  /\ PassedBoth /\ last.rowRole = "event_owner"
  /\ last.status = StatusForbidden

\* C8: when authentication fails authMiddleware answers 401 and calls
\* nothing; when it succeeds it calls the wrapped handler once, with
\* X-User-ID and X-User-Type set from the token's user_id and type claims.
C8_AuthMiddleware ==
  last.route \in AuthRoutes =>
    /\ ~PassedBoth =>
         (last.status = StatusUnauthorized /\ last.authNext = 0 /\ last.ran = 0)
    /\ PassedBoth =>
         /\ last.authNext = 1
         /\ Atoi(last.xid) = last.hdr.token.user_id
         /\ last.xtype = last.hdr.token.type

\* the wrapped handler ran with the identity headers of a registered user
C8_HandlerSawIdentity ==
  /\ last.route \in AuthRoutes
  /\ PassedBoth /\ last.authNext = 1
  /\ last.hdr.token.user_id > NumSeed

\* C9: a token handed out by register or login, presented before any logout
\* of it and before its expiry, is accepted, and the identity handed on is
\* the id and role of the user it was minted for.
C9_MintValidateRoundTrip ==
  (last.route \in AuthRoutes /\ PresentedIssued /\ ~last.wasRevoked
     /\ ~last.expired)
    => /\ last.authNext = 1
       /\ Atoi(last.xid) = MintedFor(last.hdr.token).id
       /\ last.xtype = MintedFor(last.hdr.token).type

\* a registered (non-seeded) user's token went the round trip
C9_RoundTripHappened ==
  /\ last.route \in AuthRoutes
  /\ PresentedIssued /\ ~last.wasRevoked /\ ~last.expired
  /\ last.authNext = 1
  /\ MintedFor(last.hdr.token).type # "business_owner"

\* C10: a validation at or after the exp of an issued token is rejected,
\* whatever the state of its session row.
C10_ExpiredRejected ==
  (last.route \in AuthRoutes /\ PresentedIssued /\ last.expired)
    => (last.status = StatusUnauthorized /\ last.authNext = 0)

\* an expired token was rejected while its session row was still live
C10_ExpiredWithLiveRow ==
  /\ last.route \in AuthRoutes
  /\ PresentedIssued /\ last.expired /\ last.liveRow
  /\ last.status = StatusUnauthorized

(* ========================= properties of issuance ====================== *)
\* C11: register and login hand out a token only when the session row went
\* in: a response that carries a token finds its row in the sessions table,
\* and when the INSERT failed the answer is 500 and carries no token.
C11_IssuanceCoupling ==
  last.route \in {"register", "login"} =>
    /\ last.token # NoToken => SessionRows(last.token) # {}
    /\ last.insertErr => (last.status = StatusInternalServerError
                            /\ last.token = NoToken)

\* a login with good credentials met a failing INSERT while no row for the
\* token existed, and got 500 without a token
C11_InsertFailedNoToken ==
  /\ last.route = "login" /\ last.credOK
  /\ last.insertErr /\ last.dbErr
  /\ last.status = StatusInternalServerError /\ last.token = NoToken

\* C13: a POST /login that supplies an email and a password which do not
\* verify is answered 401 with the body "invalid credentials" and adds no
\* session row, whether the email is unknown or the password is wrong: the
\* two cases are answered identically.  When the lookup of the user itself
\* fails the answer is 500 "internal server error" in both cases alike.
C13_LoginUninformative ==
  (last.route = "login" /\ last.method = "POST" /\ last.supplied
     /\ ~last.credOK)
    => /\ last.rowsSame
       /\ ~last.dbErr => /\ last.status = StatusUnauthorized
                         /\ last.body = "invalid credentials"
       /\ last.dbErr => /\ last.status = StatusInternalServerError
                        /\ last.body = "internal server error"

\* a login for an email no user has was refused
C13_UnknownEmailRefused ==
  /\ last.route = "login" /\ last.method = "POST" /\ last.supplied
  /\ ~last.known /\ ~last.credOK
  /\ last.status = StatusUnauthorized

\* a login for a registered email with a wrong password was refused
C13_WrongPasswordRefused ==
  /\ last.route = "login" /\ last.method = "POST" /\ last.supplied
  /\ last.known /\ ~last.credOK
  /\ last.status = StatusUnauthorized

\* C16: a logout answered 200 removes at most one session row, the one whose
\* token is the presented token; it adds no row, leaves every other session
\* row in place and leaves the users table as it was.
C16_LogoutFrame ==
  (last.route = "logout" /\ last.status = StatusOK) =>
    /\ \A s \in last.removed : s.token = last.hdr.token
    /\ Cardinality(last.removed) <= 1
    /\ last.added = {}
    /\ last.usersSame

\* a logout removed its row while another session of the same user stayed
C16_OtherSessionOfUserKept ==
  /\ last.route = "logout" /\ last.status = StatusOK
  /\ Cardinality(last.removed) = 1
  /\ \E s \in sessions : s.user_id = last.hdr.token.user_id

\* C17: a POST /logout without an Authorization header, or with one that
\* does not start with "Bearer ", is answered 400 and changes no session row.
C17_LogoutWithoutHeader ==
  (last.route = "logout" /\ last.method = "POST" /\ last.hdr.kind # "bearer")
    => /\ last.status = StatusBadRequest
       /\ last.removed = {} /\ last.added = {}

C19_SameExpiry == \A s \in sessions : s.expires_at = s.token.exp

\* C15: inside the validator the session-row lookup comes before signature
\* verification, and for a token without a live row (never issued, logged
\* out or expired) signature verification is not executed at all.
C15_LookupBeforeSignature ==
  (last.route \in AuthRoutes /\ last.hdr.kind = "bearer") =>
    /\ Len(last.steps) >= 1 /\ last.steps[1] = "QueryRow"
    /\ \A i \in 1..Len(last.steps) :
         last.steps[i] = "Parse" =>
           \E j \in 1..(i - 1) : last.steps[j] = "QueryRow"
    /\ ~last.liveRow =>
         \A i \in 1..Len(last.steps) : last.steps[i] # "Parse"

\* a logged-out token that would still verify was turned away by the lookup
\* alone
C15_RevokedNeverParsed ==
  /\ last.route \in AuthRoutes
  /\ PresentedIssued /\ last.wasRevoked /\ ~last.liveRow /\ last.jwtOK
  /\ last.steps = <<"QueryRow">>
  /\ last.status = StatusUnauthorized

C21_SessionsReferToUsers ==
  /\ \A s \in sessions :
       s.user_id \in 1..Len(users) /\ users[s.user_id].id = s.user_id
  /\ (last.route \in AuthRoutes /\ PresentedIssued /\ last.userGone)
       => (last.authNext = 0 /\ last.status = StatusUnauthorized)

\* an unexpired, correctly signed token of a deleted user was turned away
C21_DeletedUsersTokenRejected ==
  /\ last.route \in AuthRoutes /\ PresentedIssued
  /\ last.userGone
  /\ last.jwtOK /\ ~last.wasRevoked
  /\ last.status = StatusUnauthorized

(* ======================= properties of the event log =================== *)
\* C20: whenever the mutex is free (the only time systemEventsHandler can
\* read it) the event log holds at most 100 entries, and they are the most
\* recent min(n, 100) of the n events appended so far, in append order.
C20_EventLogBounded ==
  eventMutex = 0 =>
    /\ Len(eventLog) <= EventLogCap
    /\ Len(eventLog) = Min(appended, EventLogCap)
    /\ \A i \in 1..Len(eventLog) :
         eventLog[i].id = appended - Len(eventLog) + i

\* the log has overflowed and dropped its oldest entries while another
\* goroutine was waiting for the mutex
C20_OverflowUnderContention ==
  /\ eventMutex = 0
  /\ appended > EventLogCap
  /\ Len(eventLog) = EventLogCap
  /\ eventLog[1].id = appended - EventLogCap + 1
  /\ \E p \in Conns : logger[p] = "lock"

(* ======================= properties of registration ==================== *)
\* the last request was a POST /register whose INSERT INTO users reached
\* the database
RegisterInserted ==
  /\ last.route = "register" /\ last.method = "POST"
  /\ last.status \notin {StatusMethodNotAllowed, StatusBadRequest}
  /\ ~(last.dbErr /\ last.created = 0)

\* C12: a registration of an email that belongs to a user when its INSERT
\* runs is answered 409 and has written no users row and no sessions row;
\* no two users rows hold one email; and a registration, with a type the
\* users table accepts, that arrived while its email was new either created
\* the one user that holds it or was answered 409 because a registration
\* that overlapped it did.
C12_DuplicateEmailConflict ==
  /\ (RegisterInserted /\ last.known) =>
       /\ last.status = StatusConflict
       /\ last.created = 0 /\ last.usersSame
       /\ last.token = NoToken /\ last.rowsSame
  /\ \A i, j \in 1..Len(users) :
       (users[i] # NoUser /\ users[i].email = users[j].email) => i = j
  /\ (RegisterInserted /\ last.early) =>
       \A b \in last.sent :
         \/ b.type \notin UserTypes
         \/ /\ last.created # 0
            /\ UserByEmail(b.email) = {last.created}
            /\ last.status # StatusConflict
         \/ /\ last.created = 0
            /\ UserByEmail(b.email) # {}
            /\ last.status = StatusConflict

\* what holds of C12: the same for the registrations whose type the users
\* table accepts; the rest are answered 500 and write nothing
C12_ConflictForAcceptedTypes ==
  /\ (RegisterInserted /\ last.known) =>
       /\ last.status =
            (IF \A b \in last.sent : b.type \in UserTypes
             THEN StatusConflict ELSE StatusInternalServerError)
       /\ last.created = 0 /\ last.usersSame
       /\ last.token = NoToken /\ last.rowsSame
  /\ \A i, j \in 1..Len(users) :
       (users[i] # NoUser /\ users[i].email = users[j].email) => i = j
  /\ (RegisterInserted /\ last.early) =>
       \A b \in last.sent :
         \/ /\ b.type \in UserTypes /\ last.created # 0
            /\ UserByEmail(b.email) = {last.created}
            /\ last.status # StatusConflict
         \/ /\ b.type \in UserTypes /\ last.created = 0
            /\ UserByEmail(b.email) # {}
            /\ last.status = StatusConflict
         \/ /\ b.type \notin UserTypes /\ last.created = 0
            /\ last.status = StatusInternalServerError

\* a registration of a taken email with a type outside the ENUM of the
\* column was answered 500
C12_TakenEmailBadType ==
  /\ RegisterInserted /\ last.known
  /\ \E b \in last.sent : b.type \notin UserTypes
  /\ last.status = StatusInternalServerError
  /\ last.created = 0

\* two registrations of one new email overlapped: both arrived before either
\* INSERT ran, one went on to its 201 and its session, the other was
\* answered 409
C12_ConcurrentPairSplit ==
  /\ RegisterInserted
  /\ last.early /\ last.known
  /\ last.status = StatusConflict
  /\ \E b \in last.sent, s \in sessions : s.token.email = b.email

(* ====================== properties of /businesses ====================== *)
\* C6: a PUT or DELETE on /businesses by an authenticated business_owner who
\* does not own the named business is answered 403 and leaves its row as it
\* was.
C6_OnlyOwnerChangesBusiness ==
  (/\ last.route = "businesses" /\ last.method \in {"PUT", "DELETE"}
   /\ PassedBoth /\ last.rowRole = "business_owner"
   /\ last.pre # NoBusiness
   /\ last.pre.owner_id # last.hdr.token.user_id)
    => (last.status = StatusForbidden /\ last.pre \in businesses)

(* ====================== properties of /business-events ================= *)
\* the last request was a PUT or DELETE on /business-events that passed
\* eventOwnerOnly and named an existing event of somebody else
ForeignEventNamed ==
  /\ last.route = "business-events"
  /\ last.method \in {"PUT", "DELETE"}
  /\ last.authNext = 1
  /\ last.xtype \in {"event_owner", "business_owner"}
  /\ last.before # {}
  /\ \A e \in last.before : e.owner_id # Atoi(last.xid)

\* C22: a PUT or DELETE on /business-events by an authenticated event_owner or
\* business_owner that names an event owned by another user is answered 403
\* and the event's row is the same afterwards
C22_EventOwnership ==
  ForeignEventNamed =>
    /\ last.status = StatusForbidden
    /\ last.after = last.before

\* an owner's PUT on another owner's event was refused with 403 and the row,
\* still in the table, is the one that was there before
C22_ForeignUpdateRefused ==
  /\ ForeignEventNamed
  /\ last.method = "PUT"
  /\ last.status = StatusForbidden
  /\ last.before \subseteq events
  /\ \E b \in last.sent : b.title = "Renamed"

\* the last request was a POST on /business-events that passed eventOwnerOnly
CreateEventRan ==
  /\ last.route = "business-events"
  /\ last.method = "POST"
  /\ last.authNext = 1

\* businesses of other owners that the body of the last request names
ForeignBusinessNamed ==
  {b \in businesses : /\ \E c \in last.sent : c.business_id = <<b.id>>
                       /\ b.owner_id # Atoi(last.xid)}

\* C28: every event whose business_id is not null has the owner of that
\* business as its owner; a business_owner's POST that names a business of
\* another owner creates no event, and an event created by an event_owner
\* has a null business_id
C28_EventBusinessLink ==
  /\ \A e \in events :
       e.business_id # Nil =>
         \E b \in businesses : b.id = e.business_id[1] /\ b.owner_id = e.owner_id
  /\ (CreateEventRan /\ last.xtype = "business_owner"
        /\ ForeignBusinessNamed # {})
       => last.after = {} /\ last.status = StatusForbidden
  /\ (CreateEventRan /\ last.xtype = "event_owner")
       => \A e \in last.after : e.business_id = Nil

\* one owner's event is linked to that owner's business, and a second
\* business_owner who named the same business was refused
C28_ForeignBusinessRefused ==
  /\ CreateEventRan
  /\ last.xtype = "business_owner"
  /\ ForeignBusinessNamed # {}
  /\ last.status = StatusForbidden
  /\ \E e \in events, b \in ForeignBusinessNamed :
       e.business_id = <<b.id>> /\ e.owner_id = b.owner_id

\* an event_owner who named a business got an event with a null business_id
C28_EventOwnerLinkDropped ==
  /\ CreateEventRan
  /\ last.xtype = "event_owner"
  /\ last.status = StatusCreated
  /\ \E c \in last.sent : c.business_id # Nil /\ c.business_id[1] > 0
  /\ \E e \in last.after : e \in events /\ e.business_id = Nil

\* C29: a PUT on /business-events answered 200 leaves every column whose
\* field the body does not carry (empty string, absent price) as it was, and
\* never touches id, owner_id or business_id
C29_PartialUpdateFrame ==
  (last.route = "business-events" /\ last.method = "PUT"
     /\ last.status = StatusOK)
    => \A body \in last.sent, pre \in last.before :
         \E post \in last.after :
           /\ post.id = pre.id
           /\ post.owner_id = pre.owner_id
           /\ post.business_id = pre.business_id
           /\ body.title = "" => post.title = pre.title
           /\ body.event_date = "" => post.event_date = pre.event_date
           /\ body.price = Nil => post.price = pre.price

\* the columns the claim lists other than price are kept by every update
C29_FrameExceptPrice ==
  (last.route = "business-events" /\ last.method = "PUT"
     /\ last.status = StatusOK)
    => \A body \in last.sent, pre \in last.before :
         \E post \in last.after :
           /\ post.id = pre.id
           /\ post.owner_id = pre.owner_id
           /\ post.business_id = pre.business_id
           /\ body.title = "" => post.title = pre.title
           /\ body.event_date = "" => post.event_date = pre.event_date

(* ========================== properties of /bookings ==================== *)
\* the last request was a PUT or DELETE on /bookings that named a booking
BookingNamed ==
  /\ last.route = "bookings"
  /\ last.method \in {"PUT", "DELETE"}
  /\ last.before # {}

\* the requester of the last request owns the event of the named booking
RequesterOwnsEvent ==
  /\ last.authNext = 1
  /\ \A b \in last.before :
       \E e \in events : e.id = b.event_id /\ e.owner_id = Atoi(last.xid)

\* C23: a PUT or DELETE on /bookings changes or removes the named booking
\* only if the requester is authenticated and owns the booking's event; any
\* other authenticated requester is answered 403 and the row stays as it was
C23_BookingOwnership ==
  /\ (BookingNamed /\ last.after # last.before) => RequesterOwnsEvent
  /\ (BookingNamed /\ last.authNext = 1 /\ ~RequesterOwnsEvent)
       => last.status = StatusForbidden /\ last.after = last.before

\* an authenticated user who does not own the event asked to delete the
\* booking and was refused; the booking is still pending in the table
C23_ForeignDeleteRefused ==
  /\ BookingNamed
  /\ last.method = "DELETE"
  /\ last.authNext = 1
  /\ ~RequesterOwnsEvent
  /\ last.status = StatusForbidden
  /\ last.before \subseteq bookings

\* the owner of the event confirmed a booking
C23_OwnerConfirmed ==
  /\ BookingNamed
  /\ last.method = "PUT"
  /\ RequesterOwnsEvent
  /\ last.status = StatusOK
  /\ \E b \in last.after : b.status = "confirmed"

(* =========================== properties of /images ===================== *)
\* the user owns the business or the event the image is attached to
OwnsEntity(i, uid) ==
  \/ i.entity_type = "business"
       /\ \E b \in businesses : b.id = i.entity_id /\ b.owner_id = uid
  \/ i.entity_type = "event"
       /\ \E e \in events : e.id = i.entity_id /\ e.owner_id = uid

\* the last request was a PUT /images/update or DELETE /images/delete by an
\* authenticated user who neither uploaded the named image nor owns its entity
StrangerNamedImage ==
  /\ last.route \in {"images/update", "images/delete"}
  /\ last.authNext = 1
  /\ last.before # {}
  /\ \A i \in last.before :
       i.uploaded_by # <<Atoi(last.xid)>> /\ ~OwnsEntity(i, Atoi(last.xid))

\* C24: a PUT /images/update or DELETE /images/delete by an authenticated user
\* who neither uploaded the image nor owns the business or event it belongs
\* to is answered 403 and the image row is the same afterwards
C24_ImageOwnership ==
  StrangerNamedImage =>
    /\ last.status = StatusForbidden
    /\ last.after = last.before

\* C27: no two image rows of one (entity_type, entity_id) are primary
C27_OnePrimaryPerEntity ==
  \A i, j \in images :
    (i.entity_type = j.entity_type /\ i.entity_id = j.entity_id
       /\ i.is_primary /\ j.is_primary) => i = j

(* ====================== properties of the request counter ============== *)
\* C25: requestCount is the number of non-OPTIONS requests that have passed
\* the counting step, whatever the interleaving; an OPTIONS request is
\* answered 200, is not counted and does not reach the wrapped handler; what
\* /stats reports includes the request that asked
C25_NoLostUpdates ==
  /\ requestCount = counted
  /\ \A p \in Conns :
       /\ counter[p].method = "OPTIONS" =>
            /\ counter[p].status = StatusOK
            /\ ~counter[p].passed
            /\ ~counter[p].ran
       /\ counter[p].ran => counter[p].passed /\ counter[p].method # "OPTIONS"
       /\ counter[p].status = StatusOK /\ counter[p].ran =>
            counter[p].count \in 1..counted

\* two requests have been counted and a third waits for the mutex that
\* another goroutine holds after its increment
C25_CountedUnderContention ==
  /\ requestCount = 2
  /\ \E p, q \in Conns :
       /\ counter[p].pc = "lock"
       /\ counter[q].pc = "unlock"
       /\ requestMutex = q

\* an OPTIONS preflight was answered while another request was mid-increment
C25_PreflightNotCounted ==
  \E p, q \in Conns :
    /\ counter[p].method = "OPTIONS" /\ counter[p].status = StatusOK
    /\ counter[q].pc = "store"
    /\ requestCount = counted

(* ===================== properties of registration failures ============= *)
\* C26: a POST /register answered with anything but 201 leaves no users row,
\* no business_owners or event_owners row and no sessions row of its own
\* behind, so the email it named is held, if at all, by a row some other
\* request wrote
C26_RegistrationAllOrNothing ==
  (last.route = "register" /\ last.method = "POST"
     /\ last.status # StatusCreated)
    => /\ last.usersSame
       /\ last.rowsSame
       /\ last.created \notin business_owners \cup event_owners
       /\ \A b \in last.sent : last.created \notin UserByEmail(b.email)

\* a registration refused before the INSERT leaves both tables as they were
C26_RefusedBeforeInsert ==
  (last.route = "register"
     /\ last.status \in {StatusMethodNotAllowed, StatusBadRequest,
                          StatusConflict})
    => last.usersSame /\ last.rowsSame

(* ================== properties of the injected identity ================ *)
\* the last request carried X-User-ID / X-User-Type headers of the client's
\* own that name somebody other than the token's user or role
Spoofed ==
  /\ last.hdr.kind = "bearer"
  /\ \/ last.hdr.xid # <<>> /\ last.hdr.xid # Digits(last.hdr.token.user_id)
     \/ last.hdr.xtype # "" /\ last.hdr.xtype # last.hdr.token.type

\* C30: behind authMiddleware the handler sees the X-User-ID and X-User-Type
\* of the token's claims whatever the client sent under those names; each
\* gate answers a request and its copy with client-supplied identity headers
\* alike, and a handler decides and writes by the claims: an event is deleted
\* for its owner only, /my-businesses answers business owners only, and an
\* image is recorded as uploaded by the token's user
C30_IdentityNonInterference ==
  /\ \A h \in IssuedHeaders, x \in ClientIdentities :
       /\ authMiddleware(Spoof(h, x)) = authMiddleware(h)
       /\ businessOwnerOnly(Spoof(h, x)) = businessOwnerOnly(h)
       /\ eventOwnerOnly(Spoof(h, x)) = eventOwnerOnly(h)
  /\ last.authNext = 1 =>
       /\ last.xid = Digits(last.hdr.token.user_id)
       /\ last.xtype = last.hdr.token.type
  /\ (last.route = "business-events" /\ last.method = "DELETE"
        /\ last.before # {}
        /\ \A e \in last.before : e.owner_id # last.hdr.token.user_id)
       => last.after = last.before /\ last.status # StatusOK
  /\ (last.route = "my-businesses" /\ last.status = StatusOK)
       => last.hdr.token.type = "business_owner"
            /\ last.target = last.hdr.token.user_id
  /\ (last.route = "images/add-url" /\ last.status = StatusCreated)
       => \A i \in last.after : i.uploaded_by = <<last.hdr.token.user_id>>

\* a user whose token names them sent X-User-ID: 1 with a DELETE of user 1's
\* event and was refused; the event is still there
C30_SpoofedDeleteRefused ==
  /\ Spoofed
  /\ last.route = "business-events" /\ last.method = "DELETE"
  /\ last.authNext = 1
  /\ last.hdr.xid = <<1>>
  /\ last.hdr.token.user_id # 1
  /\ \E e \in last.before : e.owner_id = 1 /\ e \in events
  /\ last.status = StatusForbidden

\* an event_owner who sent X-User-Type: business_owner was refused on
\* /my-businesses
C30_SpoofedRoleRefused ==
  /\ Spoofed
  /\ last.route = "my-businesses"
  /\ last.hdr.xtype = "business_owner"
  /\ last.hdr.token.type = "event_owner"
  /\ last.status = StatusForbidden

====
